---- MODULE Spec2Model ----
(***************************************************************************)
(* MediConnect scheduling engine: appointment booking and lifecycle        *)
(* (app/services/appointment_service.py, app/models/appointment.py) and    *)
(* the absence store (app/services/absence_service.py).                    *)
(*                                                                         *)
(* Instants are minutes since midnight of day 0; a date is a day number.   *)
(* A nullable timestamp or id column is <<>> (NULL) or <<v>>.              *)
(***************************************************************************)
EXTENDS Integers, Sequences, FiniteSets, TLC

VARIABLES
    now,                   \* datetime.utcnow(), in minutes
    appts,                 \* table appointments: row id = index
    total_consultations,   \* Doctor.total_consultations, per doctor id
    absences,              \* table doctor_absences: row id = index
    exceptions,            \* table availability_exceptions: row id = index
    calls,                 \* create_appointment requests in flight, per patient
    doctor_fees,           \* Doctor.consultation_fee_presentiel / _online, per doctor id
    slots                  \* table doctor_availabilities: row id = index

vars == <<now, appts, total_consultations, absences, exceptions, calls,
         doctor_fees, slots>>

----------------------------------------------------------------------------
(* Bounds of the model *)

MaxAppts == 2        \* rows of the appointments table
MaxNow == 1          \* steps of the clock
MaxBlocks == 1       \* rows of doctor_absences and availability_exceptions together
MaxPriced == 1       \* rows of the appointments table while prices change
MaxExceptions == 2   \* rows of availability_exceptions where days are computed
MaxSlots == 2        \* rows of the doctor_availabilities table
TimeStep == 15       \* minutes between two instants of the model

(* Program constants *)

DEFAULT_SLOT_DURATION == 30
MinutesPerDay == 24 * 60

NULL == <<>>
Some(v) == <<v>>
\* A stored timestamp is written from datetime.utcnow() and never read back by
\* the engine: a stamped column holds Stamped, whatever the instant was.
Stamped == <<"utcnow">>

\* requested appointment start times, TimeStep apart, the first one exactly 24 h
\* after the clock's first step: with TimeStep = 15 two neighbours overlap and
\* the first and the third are back to back
Dates == {MinutesPerDay + TimeStep * k : k \in 1..3}

DateOf(t) == t \div MinutesPerDay
TimeOf(t) == t % MinutesPerDay

----------------------------------------------------------------------------
(* Doctors, patients and users (rows of doctors / patients / users) *)

DoctorIds == {"d1", "d2", "d3"}
UnknownDoctor == "d0"
PatientIds == {"p1", "p2"}
\* the patients who book; every patient may try to cancel or reschedule
Bookers == {"p1"}
Users == {"ud1", "ud2", "up1", "up2"}

Doctor(d) ==
    CASE d = "d1" -> [user_id |-> "ud1", is_accepting_patients |-> TRUE,
                      offers_presentiel |-> TRUE, offers_online |-> FALSE,
                      consultation_fee_presentiel |-> 50,
                      consultation_fee_online |-> 0, currency |-> "TND"]
      [] d = "d2" -> [user_id |-> "ud2", is_accepting_patients |-> TRUE,
                      offers_presentiel |-> FALSE, offers_online |-> TRUE,
                      consultation_fee_presentiel |-> 0,
                      consultation_fee_online |-> 30, currency |-> "TND"]
      [] OTHER    -> [user_id |-> "ud3", is_accepting_patients |-> FALSE,
                      offers_presentiel |-> TRUE, offers_online |-> TRUE,
                      consultation_fee_presentiel |-> 40,
                      consultation_fee_online |-> 20, currency |-> "TND"]

Patient(p) == [user_id |-> IF p = "p1" THEN "up1" ELSE "up2"]

\* select(Doctor).where(Doctor.user_id == user_id).scalar_one_or_none()
DoctorByUser(u) == {d \in DoctorIds : Doctor(d).user_id = u}
\* select(Patient).where(Patient.user_id == user_id).scalar_one_or_none()
PatientByUser(u) == {p \in PatientIds : Patient(p).user_id = u}

ConsultationTypes == {"presentiel", "online"}
ActiveStatuses == {"pending", "confirmed"}

\* confirmation codes are opaque tokens; token k stands for one 6-character draw
Codes == 1..MaxAppts

----------------------------------------------------------------------------
(* Appointment model properties *)

\* mutant: the boundary instant now + 24 h = start counts as early enough
is_cancellable_inclusive(a) ==
    IF a.status \in {"cancelled", "completed", "no_show"}
    THEN FALSE
    ELSE now + 24 * 60 <= a.appointment_date

is_cancellable(a) ==
    IF a.status \in {"cancelled", "completed", "no_show"}
    THEN FALSE
    ELSE now + 24 * 60 < a.appointment_date

is_modifiable(a) == is_cancellable(a)

\* mutant: the window is open at both ends
can_join_video_open_window(a) ==
    IF a.consultation_type # "online" THEN FALSE
    ELSE IF a.status # "confirmed" THEN FALSE
    ELSE (a.appointment_date - 15 < now) /\ (now < a.appointment_date + 60)

can_join_video(a) ==
    IF a.consultation_type # "online" THEN FALSE
    ELSE IF a.status # "confirmed" THEN FALSE
    ELSE (a.appointment_date - 15 <= now) /\ (now <= a.appointment_date + 60)

----------------------------------------------------------------------------
(* AppointmentService.  Each request is one action: it is enabled when the     *)
(* handler reaches its commit, i.e. when its response is 200/201; a request    *)
(* that raises an HTTPException before the commit changes nothing and is no    *)
(* step.  <handler>_response is the response the handler ends with.            *)

\* mutant: only an appointment with the very same start time conflicts
check_slot_availability_same_start(doctor_id, appointment_date, exclude) ==
    LET conflicts == {i \in DOMAIN appts :
            /\ appts[i].doctor_id = doctor_id
            /\ appts[i].status \in {"pending", "confirmed"}
            /\ appts[i].appointment_date = appointment_date
            /\ (exclude # 0 => i # exclude)}
    IN  conflicts = {}

\* mutant: all three branches compare with <= and >=, so that a slot that
\* only touches an appointment conflicts with it
check_slot_availability_touching(doctor_id, appointment_date, exclude) ==
    LET slot_end == appointment_date + DEFAULT_SLOT_DURATION
        conflicts == {i \in DOMAIN appts :
            /\ appts[i].doctor_id = doctor_id
            /\ appts[i].status \in {"pending", "confirmed"}
            /\ \/ /\ appts[i].appointment_date <= appointment_date
                  /\ appts[i].appointment_date + 30 >= appointment_date
               \/ /\ appts[i].appointment_date <= slot_end
                  /\ appts[i].appointment_date + 30 >= slot_end
               \/ /\ appts[i].appointment_date >= appointment_date
                  /\ appts[i].appointment_date <= slot_end
            /\ (exclude # 0 => i # exclude)}
    IN  conflicts = {}

\* exclude = 0 stands for exclude_appointment_id=None
check_slot_availability(doctor_id, appointment_date, exclude) ==
    LET slot_end == appointment_date + DEFAULT_SLOT_DURATION
        conflicts == {i \in DOMAIN appts :
            /\ appts[i].doctor_id = doctor_id
            /\ appts[i].status \in {"pending", "confirmed"}
            /\ \/ /\ appts[i].appointment_date <= appointment_date
                  /\ appts[i].appointment_date + 30 > appointment_date
               \/ /\ appts[i].appointment_date < slot_end
                  /\ appts[i].appointment_date + 30 >= slot_end
               \/ /\ appts[i].appointment_date >= appointment_date
                  /\ appts[i].appointment_date < slot_end
            /\ (exclude # 0 => i # exclude)}
    IN  conflicts = {}

\* the unique constraint on appointments.confirmation_code
code_is_unique(code) ==
    \A i \in DOMAIN appts : appts[i].confirmation_code # code

\* the doctor lookup and the doctor's guards of create_appointment: the error
\* raised, or "pass"
create_appointment_doctor_checks(doctor_id, consultation_type) ==
    IF doctor_id \notin DoctorIds THEN "404 doctor not found"
    ELSE IF ~Doctor(doctor_id).is_accepting_patients THEN "400 not accepting"
    ELSE IF consultation_type = "presentiel" /\ ~Doctor(doctor_id).offers_presentiel
         THEN "400 presentiel not offered"
    ELSE IF consultation_type = "online" /\ ~Doctor(doctor_id).offers_online
         THEN "400 online not offered"
    ELSE "pass"

\* the response of create_appointment: the HTTP status it ends with
create_appointment_response(doctor_id, appointment_date, consultation_type, code) ==
    IF create_appointment_doctor_checks(doctor_id, consultation_type) # "pass"
         THEN create_appointment_doctor_checks(doctor_id, consultation_type)
    ELSE IF ~check_slot_availability(doctor_id, appointment_date, 0)
         THEN "409 slot not available"
    ELSE IF ~code_is_unique(code) THEN "500 IntegrityError"
    ELSE "201"

\* mutant: the fee of an in-person consultation is charged whatever the type
NewAppointment_presentiel_fee(patient_id, doctor_id, appointment_date, consultation_type, code) ==
    [patient_id |-> patient_id,
     doctor_id |-> doctor_id,
     appointment_date |-> appointment_date,
     duration_minutes |-> DEFAULT_SLOT_DURATION,
     consultation_type |-> consultation_type,
     status |-> "pending",
     consultation_fee |-> doctor_fees[doctor_id].presentiel,
     currency |-> Doctor(doctor_id).currency,
     confirmation_code |-> code,
     confirmed_at |-> NULL,
     cancelled_at |-> NULL,
     cancelled_by |-> "None",
     rescheduled_from_id |-> NULL,
     rescheduled_to_id |-> NULL]

NewAppointment(patient_id, doctor_id, appointment_date, consultation_type, code) ==
    [patient_id |-> patient_id,
     doctor_id |-> doctor_id,
     appointment_date |-> appointment_date,
     duration_minutes |-> DEFAULT_SLOT_DURATION,
     consultation_type |-> consultation_type,
     status |-> "pending",
     consultation_fee |-> IF consultation_type = "online"
                          THEN doctor_fees[doctor_id].online
                          ELSE doctor_fees[doctor_id].presentiel,
     currency |-> Doctor(doctor_id).currency,
     confirmation_code |-> code,
     confirmed_at |-> NULL,
     cancelled_at |-> NULL,
     cancelled_by |-> "None",
     rescheduled_from_id |-> NULL,
     rescheduled_to_id |-> NULL]

create_appointment(patient_id, doctor_id, appointment_date, consultation_type, code) ==
    /\ create_appointment_response(doctor_id, appointment_date,
                                   consultation_type, code) = "201"
    /\ appts' = Append(appts, NewAppointment(patient_id, doctor_id,
                           appointment_date, consultation_type, code))
    /\ UNCHANGED <<now, total_consultations, absences, exceptions, calls, doctor_fees, slots>>

\* mutant: the status check is missing
confirm_appointment_response_any_status(appointment_id, doctor_user_id) ==
    IF appointment_id \notin DOMAIN appts THEN "404 appointment not found"
    ELSE IF \/ DoctorByUser(doctor_user_id) = {}
            \/ appts[appointment_id].doctor_id \notin DoctorByUser(doctor_user_id)
         THEN "403 not authorized"
    ELSE "200"

confirm_appointment_response(appointment_id, doctor_user_id) ==
    IF appointment_id \notin DOMAIN appts THEN "404 appointment not found"
    ELSE IF \/ DoctorByUser(doctor_user_id) = {}
            \/ appts[appointment_id].doctor_id \notin DoctorByUser(doctor_user_id)
         THEN "403 not authorized"
    ELSE IF appts[appointment_id].status # "pending" THEN "400 cannot confirm"
    ELSE "200"

confirm_appointment(appointment_id, doctor_user_id) ==
    /\ confirm_appointment_response(appointment_id, doctor_user_id) = "200"
    /\ appts' = [appts EXCEPT ![appointment_id].status = "confirmed",
                              ![appointment_id].confirmed_at = Stamped]
    /\ UNCHANGED <<now, total_consultations, absences, exceptions, calls, doctor_fees, slots>>

\* mutant: the 24 h rule is not enforced
cancel_appointment_response_no_rule(appointment_id, user_id, is_doctor) ==
    IF appointment_id \notin DOMAIN appts THEN "404 appointment not found"
    ELSE IF is_doctor /\ (\/ DoctorByUser(user_id) = {}
                          \/ appts[appointment_id].doctor_id \notin DoctorByUser(user_id))
         THEN "403 not authorized"
    ELSE IF ~is_doctor /\ (\/ PatientByUser(user_id) = {}
                           \/ appts[appointment_id].patient_id \notin PatientByUser(user_id))
         THEN "403 not authorized"
    ELSE IF appts[appointment_id].status \in {"cancelled", "completed"}
         THEN "400 cannot cancel"
    ELSE "200"

cancel_appointment_response(appointment_id, user_id, is_doctor) ==
    IF appointment_id \notin DOMAIN appts THEN "404 appointment not found"
    ELSE IF is_doctor /\ (\/ DoctorByUser(user_id) = {}
                          \/ appts[appointment_id].doctor_id \notin DoctorByUser(user_id))
         THEN "403 not authorized"
    ELSE IF ~is_doctor /\ (\/ PatientByUser(user_id) = {}
                           \/ appts[appointment_id].patient_id \notin PatientByUser(user_id))
         THEN "403 not authorized"
    ELSE IF appts[appointment_id].status \in {"cancelled", "completed"}
         THEN "400 cannot cancel"
    ELSE IF ~is_doctor /\ ~is_cancellable(appts[appointment_id])
         THEN "400 24h rule"
    ELSE "200"

cancel_appointment(appointment_id, user_id, is_doctor) ==
    /\ cancel_appointment_response(appointment_id, user_id, is_doctor) = "200"
    /\ appts' = [appts EXCEPT
           ![appointment_id].status = "cancelled",
           ![appointment_id].cancelled_at = Stamped,
           ![appointment_id].cancelled_by = IF is_doctor THEN "doctor" ELSE "patient"]
    /\ UNCHANGED <<now, total_consultations, absences, exceptions, calls, doctor_fees, slots>>

\* mutant: the appointment's own slot counts as a conflict
reschedule_appointment_response_counts_itself(appointment_id, patient_id, new_date) ==
    IF appointment_id \notin DOMAIN appts THEN "404 appointment not found"
    ELSE IF appts[appointment_id].patient_id # patient_id THEN "403 not authorized"
    ELSE IF ~is_modifiable(appts[appointment_id]) THEN "400 24h rule"
    ELSE IF ~check_slot_availability(appts[appointment_id].doctor_id, new_date, 0)
         THEN "409 slot not available"
    ELSE "200"

\* mutant: the 24 h rule is applied to the new time, not to the current start
reschedule_appointment_response_new_date(appointment_id, patient_id, new_date) ==
    IF appointment_id \notin DOMAIN appts THEN "404 appointment not found"
    ELSE IF appts[appointment_id].patient_id # patient_id THEN "403 not authorized"
    ELSE IF \/ appts[appointment_id].status \in {"cancelled", "completed", "no_show"}
            \/ ~(now + 24 * 60 < new_date)
         THEN "400 24h rule"
    ELSE IF ~check_slot_availability(appts[appointment_id].doctor_id, new_date,
                                     appointment_id)
         THEN "409 slot not available"
    ELSE "200"

reschedule_appointment_response(appointment_id, patient_id, new_date) ==
    IF appointment_id \notin DOMAIN appts THEN "404 appointment not found"
    ELSE IF appts[appointment_id].patient_id # patient_id THEN "403 not authorized"
    ELSE IF ~is_modifiable(appts[appointment_id]) THEN "400 24h rule"
    ELSE IF ~check_slot_availability(appts[appointment_id].doctor_id, new_date,
                                     appointment_id)
         THEN "409 slot not available"
    ELSE "200"

\* mutant: a confirmed appointment stays confirmed when it is moved
reschedule_appointment_keeps_status(appointment_id, patient_id, new_date) ==
    /\ reschedule_appointment_response(appointment_id, patient_id, new_date) = "200"
    /\ appts' = [appts EXCEPT ![appointment_id].appointment_date = new_date]
    /\ UNCHANGED <<now, total_consultations, absences, exceptions, calls, doctor_fees, slots>>

\* mutant: the moved appointment is marked rescheduled
reschedule_appointment_marks_rescheduled(appointment_id, patient_id, new_date) ==
    /\ reschedule_appointment_response(appointment_id, patient_id, new_date) = "200"
    /\ appts' = [appts EXCEPT ![appointment_id].appointment_date = new_date,
                              ![appointment_id].status = "rescheduled",
                              ![appointment_id].confirmed_at = NULL]
    /\ UNCHANGED <<now, total_consultations, absences, exceptions, calls, doctor_fees, slots>>

\* mutant: the moved appointment goes back to pending but keeps its confirmed_at
reschedule_appointment_keeps_confirmed_at(appointment_id, patient_id, new_date) ==
    /\ reschedule_appointment_response(appointment_id, patient_id, new_date) = "200"
    /\ appts' = [appts EXCEPT ![appointment_id].appointment_date = new_date,
                              ![appointment_id].status = "pending"]
    /\ UNCHANGED <<now, total_consultations, absences, exceptions, calls, doctor_fees, slots>>

reschedule_appointment(appointment_id, patient_id, new_date) ==
    /\ reschedule_appointment_response(appointment_id, patient_id, new_date) = "200"
    /\ appts' = [appts EXCEPT ![appointment_id].appointment_date = new_date,
                              ![appointment_id].status = "pending",
                              ![appointment_id].confirmed_at = NULL]
    /\ UNCHANGED <<now, total_consultations, absences, exceptions, calls, doctor_fees, slots>>

\* mutant: a pending appointment can be completed as well
mark_completed_response_pending_too(appointment_id, doctor_user_id) ==
    IF appointment_id \notin DOMAIN appts THEN "404 appointment not found"
    ELSE IF \/ DoctorByUser(doctor_user_id) = {}
            \/ appts[appointment_id].doctor_id \notin DoctorByUser(doctor_user_id)
         THEN "403 not authorized"
    ELSE IF appts[appointment_id].status \notin {"pending", "confirmed"}
         THEN "400 not confirmed"
    ELSE "200"

mark_completed_response(appointment_id, doctor_user_id) ==
    IF appointment_id \notin DOMAIN appts THEN "404 appointment not found"
    ELSE IF \/ DoctorByUser(doctor_user_id) = {}
            \/ appts[appointment_id].doctor_id \notin DoctorByUser(doctor_user_id)
         THEN "403 not authorized"
    ELSE IF appts[appointment_id].status # "confirmed" THEN "400 not confirmed"
    ELSE "200"

mark_completed(appointment_id, doctor_user_id) ==
    /\ mark_completed_response(appointment_id, doctor_user_id) = "200"
    /\ appts' = [appts EXCEPT ![appointment_id].status = "completed"]
    /\ total_consultations' =
          [total_consultations EXCEPT
             ![CHOOSE d \in DoctorByUser(doctor_user_id) : TRUE] = @ + 1]
    /\ UNCHANGED <<now, absences, exceptions, calls, doctor_fees, slots>>

mark_no_show_response(appointment_id, doctor_user_id) ==
    IF appointment_id \notin DOMAIN appts THEN "404 appointment not found"
    ELSE IF \/ DoctorByUser(doctor_user_id) = {}
            \/ appts[appointment_id].doctor_id \notin DoctorByUser(doctor_user_id)
         THEN "403 not authorized"
    ELSE IF appts[appointment_id].status # "confirmed" THEN "400 not confirmed"
    ELSE "200"

mark_no_show(appointment_id, doctor_user_id) ==
    /\ mark_no_show_response(appointment_id, doctor_user_id) = "200"
    /\ appts' = [appts EXCEPT ![appointment_id].status = "no_show"]
    /\ UNCHANGED <<now, total_consultations, absences, exceptions, calls, doctor_fees, slots>>

\* the clock advances between requests
Tick ==
    /\ now < TimeStep * MaxNow
    /\ now' = now + TimeStep
    /\ UNCHANGED <<appts, total_consultations, absences, exceptions, calls, doctor_fees, slots>>

----------------------------------------------------------------------------
(* create_appointment, one database round trip at a time.  The handler awaits  *)
(* the doctor query, the conflict query and the commit; between two awaits     *)
(* another request may run.  No row is locked and the table has no constraint  *)
(* on (doctor_id, appointment_date).                                           *)

IdleCall ==
    [pc |-> "idle", doctor_id |-> UnknownDoctor, appointment_date |-> 0,
     consultation_type |-> "presentiel", is_available |-> FALSE,
     response |-> "None"]

\* the doctor is loaded and checked
create_appointment_begin(patient_id, doctor_id, appointment_date, consultation_type) ==
    /\ calls[patient_id].pc = "idle"
    /\ calls' = [calls EXCEPT ![patient_id] =
          [pc |-> IF create_appointment_doctor_checks(doctor_id, consultation_type) = "pass"
                  THEN "check" ELSE "done",
           doctor_id |-> doctor_id,
           appointment_date |-> appointment_date,
           consultation_type |-> consultation_type,
           is_available |-> FALSE,
           response |-> IF create_appointment_doctor_checks(doctor_id, consultation_type) = "pass"
                        THEN "None"
                        ELSE create_appointment_doctor_checks(doctor_id, consultation_type)]]
    /\ UNCHANGED <<now, appts, total_consultations, absences, exceptions, doctor_fees, slots>>

\* is_available = await check_slot_availability(...), 409 when it is false
create_appointment_check(patient_id) ==
    /\ calls[patient_id].pc = "check"
    /\ LET is_available == check_slot_availability(calls[patient_id].doctor_id,
                                calls[patient_id].appointment_date, 0)
       IN  calls' = [calls EXCEPT
               ![patient_id].is_available = is_available,
               ![patient_id].pc = IF is_available THEN "insert" ELSE "done",
               ![patient_id].response = IF is_available THEN "None"
                                        ELSE "409 slot not available"]
    /\ UNCHANGED <<now, appts, total_consultations, absences, exceptions, doctor_fees, slots>>

\* db.add(appointment); await db.commit()
create_appointment_insert(patient_id, code) ==
    /\ calls[patient_id].pc = "insert"
    /\ IF code_is_unique(code)
       THEN /\ appts' = Append(appts, NewAppointment(patient_id,
                              calls[patient_id].doctor_id,
                              calls[patient_id].appointment_date,
                              calls[patient_id].consultation_type, code))
            /\ calls' = [calls EXCEPT ![patient_id].pc = "done",
                                      ![patient_id].response = "201"]
       ELSE /\ appts' = appts
            /\ calls' = [calls EXCEPT ![patient_id].pc = "done",
                                      ![patient_id].response = "500 IntegrityError"]
    /\ UNCHANGED <<now, total_consultations, absences, exceptions, doctor_fees, slots>>

\* reschedule_appointment, one database round trip at a time: the appointment
\* is loaded and the guards on it are evaluated
reschedule_appointment_begin(patient_id, appointment_id, new_date) ==
    /\ calls[patient_id].pc = "idle"
    /\ LET error ==
              IF appointment_id \notin DOMAIN appts THEN "404 appointment not found"
              ELSE IF appts[appointment_id].patient_id # patient_id
                   THEN "403 not authorized"
              ELSE IF ~is_modifiable(appts[appointment_id]) THEN "400 24h rule"
              ELSE "None"
       IN  calls' = [calls EXCEPT ![patient_id] =
              [pc |-> IF error = "None" THEN "check" ELSE "done",
               appointment_id |-> appointment_id,
               doctor_id |-> IF appointment_id \in DOMAIN appts
                             THEN appts[appointment_id].doctor_id ELSE UnknownDoctor,
               appointment_date |-> new_date,
               consultation_type |-> "presentiel",
               is_available |-> FALSE,
               response |-> error]]
    /\ UNCHANGED <<now, appts, total_consultations, absences, exceptions, doctor_fees, slots>>

\* is_available = await check_slot_availability(..., exclude_appointment_id)
reschedule_appointment_check(patient_id) ==
    /\ calls[patient_id].pc = "check"
    /\ LET is_available == check_slot_availability(calls[patient_id].doctor_id,
                                calls[patient_id].appointment_date,
                                calls[patient_id].appointment_id)
       IN  calls' = [calls EXCEPT
               ![patient_id].is_available = is_available,
               ![patient_id].pc = IF is_available THEN "write" ELSE "done",
               ![patient_id].response = IF is_available THEN "None"
                                        ELSE "409 slot not available"]
    /\ UNCHANGED <<now, appts, total_consultations, absences, exceptions, doctor_fees, slots>>

\* the three assignments and await db.commit()
reschedule_appointment_write(patient_id) ==
    /\ calls[patient_id].pc = "write"
    /\ appts' = [appts EXCEPT
          ![calls[patient_id].appointment_id].appointment_date
              = calls[patient_id].appointment_date,
          ![calls[patient_id].appointment_id].status = "pending",
          ![calls[patient_id].appointment_id].confirmed_at = NULL]
    /\ calls' = [calls EXCEPT ![patient_id].pc = "done",
                              ![patient_id].response = "200"]
    /\ UNCHANGED <<now, total_consultations, absences, exceptions, doctor_fees, slots>>

\* mark_completed, one database round trip at a time.  Each request works on
\* the objects its own session loaded.
IdleCompletion ==
    [pc |-> "idle", appointment_id |-> 0, doctor_user_id |-> "None",
     doctor_id |-> UnknownDoctor, status |-> "None",
     total_consultations |-> 0, response |-> "None"]

\* appointment = await AppointmentService.get_appointment_by_id(db, appointment_id)
mark_completed_load(session, appointment_id, doctor_user_id) ==
    /\ calls[session].pc = "idle"
    /\ calls' = [calls EXCEPT ![session] =
          IF appointment_id \notin DOMAIN appts
          THEN [IdleCompletion EXCEPT !.pc = "done",
                                      !.appointment_id = appointment_id,
                                      !.doctor_user_id = doctor_user_id,
                                      !.response = "404 appointment not found"]
          ELSE [IdleCompletion EXCEPT !.pc = "doctor",
                                      !.appointment_id = appointment_id,
                                      !.doctor_user_id = doctor_user_id,
                                      !.doctor_id = appts[appointment_id].doctor_id,
                                      !.status = appts[appointment_id].status]]
    /\ UNCHANGED <<now, appts, total_consultations, absences, exceptions, doctor_fees, slots>>

\* the doctor is loaded, the guards are evaluated on the loaded objects, and
\* doctor.total_consultations += 1 is computed on the loaded doctor
mark_completed_doctor(session) ==
    /\ calls[session].pc = "doctor"
    /\ LET doctor == DoctorByUser(calls[session].doctor_user_id)
           error ==
              IF doctor = {} \/ calls[session].doctor_id \notin doctor
              THEN "403 not authorized"
              ELSE IF calls[session].status # "confirmed" THEN "400 not confirmed"
              ELSE "None"
       IN  calls' = [calls EXCEPT
              ![session].pc = IF error = "None" THEN "commit" ELSE "done",
              ![session].response = error,
              ![session].status = IF error = "None" THEN "completed" ELSE @,
              ![session].total_consultations =
                  IF error = "None"
                  THEN total_consultations[calls[session].doctor_id] + 1 ELSE @]
    /\ UNCHANGED <<now, appts, total_consultations, absences, exceptions, doctor_fees, slots>>

\* await db.commit(): the changed attributes of both objects are written
mark_completed_commit(session) ==
    /\ calls[session].pc = "commit"
    /\ appts' = [appts EXCEPT
          ![calls[session].appointment_id].status = calls[session].status]
    /\ total_consultations' = [total_consultations EXCEPT
          ![calls[session].doctor_id] = calls[session].total_consultations]
    /\ calls' = [calls EXCEPT ![session].pc = "done", ![session].response = "200"]
    /\ UNCHANGED <<now, absences, exceptions, doctor_fees, slots>>

----------------------------------------------------------------------------
(* AbsenceService and the exceptions of AvailabilityService.  A date is a day  *)
(* number, a time of day is minutes since midnight.                            *)

\* DoctorAbsence.is_full_day
is_full_day(absence) == absence.start_time = NULL /\ absence.end_time = NULL

\* AvailabilityException.is_full_day
exception_is_full_day(exception) ==
    exception.start_time = NULL /\ exception.end_time = NULL

\* the ids of the affected appointments
check_conflicts(doctor_id, start_date, end_date, start_time, end_time) ==
    LET appointments == {i \in DOMAIN appts :
            /\ appts[i].doctor_id = doctor_id
            /\ appts[i].status \in {"pending", "confirmed"}
            /\ appts[i].appointment_date >= start_date * MinutesPerDay
            /\ appts[i].appointment_date <= end_date * MinutesPerDay + (MinutesPerDay - 1)}
        no_overlap(i) ==
            /\ start_time # NULL /\ end_time # NULL
            /\ \/ TimeOf(appts[i].appointment_date + appts[i].duration_minutes)
                      <= start_time[1]
               \/ TimeOf(appts[i].appointment_date) >= end_time[1]
    IN  {i \in appointments : ~no_overlap(i)}

\* the ConflictCheckResponse (the recommendation is text and left out)
ConflictCheckResponse(doctor_id, start_date, end_date, start_time, end_time) ==
    LET affected == check_conflicts(doctor_id, start_date, end_date, start_time, end_time)
    IN  [has_conflicts |-> Cardinality(affected) > 0,
         affected_count |-> Cardinality(affected),
         affected_appointments |-> affected]

\* mutant: the patients are stamped as notified whenever notify_patients is set
create_absence_always_notified(doctor_id, start_date, end_date, start_time, end_time, notify_patients) ==
    /\ end_date >= start_date
    /\ LET conflicts == check_conflicts(doctor_id, start_date, end_date,
                                        start_time, end_time)
       IN  absences' = Append(absences,
              [doctor_id |-> doctor_id,
               start_date |-> start_date,
               end_date |-> end_date,
               start_time |-> start_time,
               end_time |-> end_time,
               notify_patients |-> notify_patients,
               affected_appointments_count |-> Cardinality(conflicts),
               is_active |-> TRUE,
               patients_notified_at |-> IF notify_patients THEN Stamped ELSE NULL,
               cancelled_at |-> NULL])
    /\ UNCHANGED <<now, appts, total_consultations, exceptions, calls, doctor_fees, slots>>

create_absence(doctor_id, start_date, end_date, start_time, end_time, notify_patients) ==
    /\ end_date >= start_date
    /\ LET conflicts == check_conflicts(doctor_id, start_date, end_date,
                                        start_time, end_time)
       IN  absences' = Append(absences,
              [doctor_id |-> doctor_id,
               start_date |-> start_date,
               end_date |-> end_date,
               start_time |-> start_time,
               end_time |-> end_time,
               notify_patients |-> notify_patients,
               affected_appointments_count |-> Cardinality(conflicts),
               is_active |-> TRUE,
               patients_notified_at |-> IF notify_patients /\ conflicts # {}
                                        THEN Stamped ELSE NULL,
               cancelled_at |-> NULL])
    /\ UNCHANGED <<now, appts, total_consultations, exceptions, calls, doctor_fees, slots>>

\* the row of the absence after the fields of the request are assigned; a
\* field that is NULL was not sent
UpdatedAbsence(absence, data) ==
    [absence EXCEPT
        !.start_date = IF data.start_date # NULL THEN data.start_date[1] ELSE @,
        !.end_date = IF data.end_date # NULL THEN data.end_date[1] ELSE @,
        !.start_time = IF data.start_time # NULL THEN data.start_time ELSE @,
        !.end_time = IF data.end_time # NULL THEN data.end_time ELSE @,
        !.notify_patients = IF data.notify_patients # NULL
                            THEN data.notify_patients[1] ELSE @,
        !.is_active = IF data.is_active # NULL THEN data.is_active[1] ELSE @,
        !.cancelled_at = IF data.is_active # NULL /\ ~data.is_active[1]
                         THEN Stamped ELSE @]

\* mutant: the conflicts are never scanned again
update_absence_no_rescan(doctor_id, absence_id, data) ==
    /\ absence_id \in DOMAIN absences
    /\ absences[absence_id].doctor_id = doctor_id
    /\ absences' = [absences EXCEPT ![absence_id] = UpdatedAbsence(@, data)]
    /\ UNCHANGED <<now, appts, total_consultations, exceptions, calls, doctor_fees, slots>>

update_absence(doctor_id, absence_id, data) ==
    /\ absence_id \in DOMAIN absences
    /\ absences[absence_id].doctor_id = doctor_id
    /\ LET absence == UpdatedAbsence(absences[absence_id], data)
           rescan == \/ data.start_date # NULL \/ data.end_date # NULL
                     \/ data.start_time # NULL \/ data.end_time # NULL
           conflicts == ConflictCheckResponse(doctor_id,
                            absence.start_date, absence.end_date,
                            absence.start_time, absence.end_time)
       IN  absences' = [absences EXCEPT ![absence_id] =
               IF rescan
               THEN [absence EXCEPT !.affected_appointments_count
                                       = conflicts.affected_count]
               ELSE absence]
    /\ UNCHANGED <<now, appts, total_consultations, exceptions, calls, doctor_fees, slots>>

\* mutant: the count of the cancelled absence is cleared
delete_absence_clears_count(doctor_id, absence_id) ==
    /\ absence_id \in DOMAIN absences
    /\ absences[absence_id].doctor_id = doctor_id
    /\ absences' = [absences EXCEPT ![absence_id].is_active = FALSE,
                                    ![absence_id].cancelled_at = Stamped,
                                    ![absence_id].affected_appointments_count = 0]
    /\ UNCHANGED <<now, appts, total_consultations, exceptions, calls, doctor_fees, slots>>

\* soft delete
delete_absence(doctor_id, absence_id) ==
    /\ absence_id \in DOMAIN absences
    /\ absences[absence_id].doctor_id = doctor_id
    /\ absences' = [absences EXCEPT ![absence_id].is_active = FALSE,
                                    ![absence_id].cancelled_at = Stamped]
    /\ UNCHANGED <<now, appts, total_consultations, exceptions, calls, doctor_fees, slots>>

\* the ids of the active absences that overlap [start_date, end_date]
get_absences_for_date_range(doctor_id, start_date, end_date) ==
    {i \in DOMAIN absences :
        /\ absences[i].doctor_id = doctor_id
        /\ absences[i].is_active
        /\ absences[i].start_date <= end_date
        /\ absences[i].end_date >= start_date}

\* mutant: the end of a partial-day window blocks too
is_date_blocked_closed(doctor_id, check_date, check_time) ==
    \E i \in get_absences_for_date_range(doctor_id, check_date, check_date) :
        \/ is_full_day(absences[i])
        \/ /\ check_time # NULL
           /\ absences[i].start_time # NULL
           /\ absences[i].end_time # NULL
           /\ absences[i].start_time[1] <= check_time[1]
           /\ check_time[1] <= absences[i].end_time[1]

\* check_time = NULL stands for check_time=None
is_date_blocked(doctor_id, check_date, check_time) ==
    \E i \in get_absences_for_date_range(doctor_id, check_date, check_date) :
        \/ is_full_day(absences[i])
        \/ /\ check_time # NULL
           /\ absences[i].start_time # NULL
           /\ absences[i].end_time # NULL
           /\ absences[i].start_time[1] <= check_time[1]
           /\ check_time[1] < absences[i].end_time[1]

create_exception(doctor_id, exception_date, start_time, end_time, is_available) ==
    /\ exceptions' = Append(exceptions,
          [doctor_id |-> doctor_id,
           exception_date |-> exception_date,
           start_time |-> start_time,
           end_time |-> end_time,
           is_available |-> is_available])
    /\ UNCHANGED <<now, appts, total_consultations, absences, calls, doctor_fees, slots>>

----------------------------------------------------------------------------
(* DoctorService: the doctor edits the prices of the profile.  A field of the  *)
(* request that is NULL (unset) keeps the stored value.                        *)

update_doctor_profile(user_id, consultation_fee_presentiel, consultation_fee_online) ==
    /\ DoctorByUser(user_id) # {}
    /\ LET doctor == CHOOSE d \in DoctorByUser(user_id) : TRUE
       IN  doctor_fees' = [doctor_fees EXCEPT
               ![doctor].presentiel = IF consultation_fee_presentiel # NULL
                                      THEN consultation_fee_presentiel[1] ELSE @,
               ![doctor].online = IF consultation_fee_online # NULL
                                  THEN consultation_fee_online[1] ELSE @]
    /\ UNCHANGED <<now, appts, total_consultations, absences, exceptions, calls, slots>>

----------------------------------------------------------------------------
(* AvailabilityService: the weekly slots of a doctor.  The table is a function *)
(* from row ids to rows, a deleted row leaves it.  A time of day is minutes    *)
(* since midnight ("HH:MM" strings order as the times they denote).  In an     *)
(* update request NULL is a field that was not sent.                           *)

SlotIds == 1..MaxSlots

\* the id of a new row
FreshSlotId(rows) ==
    CHOOSE i \in SlotIds \ DOMAIN rows : \A j \in SlotIds \ DOMAIN rows : i <= j

\* db.add(new_slot)
InsertSlot(rows, row) ==
    [i \in DOMAIN rows \cup {FreshSlotId(rows)} |->
        IF i \in DOMAIN rows THEN rows[i] ELSE row]

\* db.delete(slot) / delete(DoctorAvailability).where(...)
RemoveSlots(rows, ids) == [i \in DOMAIN rows \ ids |-> rows[i]]

\* the field validation of AvailabilitySlotCreate
AvailabilitySlotCreate(data) ==
    /\ data.day_of_week >= 0 /\ data.day_of_week <= 6
    /\ data.slot_duration_minutes >= 10 /\ data.slot_duration_minutes <= 120
    /\ data.end_time > data.start_time

NewSlot(doctor_id, data, default_slot_duration) ==
    [doctor_id |-> doctor_id,
     day_of_week |-> data.day_of_week,
     start_time |-> data.start_time,
     end_time |-> data.end_time,
     consultation_type |-> data.consultation_type,
     slot_duration_minutes |-> IF data.slot_duration_minutes # 0
                               THEN data.slot_duration_minutes
                               ELSE default_slot_duration,
     break_start |-> data.break_start,
     break_end |-> data.break_end,
     is_active |-> TRUE]

\* mutant: a slot that touches an existing one conflicts as well
create_availability_slot_response_closed(doctor_id, data) ==
    LET existing_slots == {i \in DOMAIN slots :
            /\ slots[i].doctor_id = doctor_id
            /\ slots[i].day_of_week = data.day_of_week
            /\ slots[i].is_active}
    IN  IF \E i \in existing_slots :
              ~(data.end_time < slots[i].start_time \/ data.start_time > slots[i].end_time)
        THEN "409 overlaps"
        ELSE "200"

create_availability_slot_response(doctor_id, data) ==
    LET existing_slots == {i \in DOMAIN slots :
            /\ slots[i].doctor_id = doctor_id
            /\ slots[i].day_of_week = data.day_of_week
            /\ slots[i].is_active}
    IN  IF \E i \in existing_slots :
              ~(data.end_time <= slots[i].start_time \/ data.start_time >= slots[i].end_time)
        THEN "409 overlaps"
        ELSE "200"

create_availability_slot(doctor_id, data) ==
    /\ AvailabilitySlotCreate(data)
    /\ create_availability_slot_response(doctor_id, data) = "200"
    /\ slots' = InsertSlot(slots, NewSlot(doctor_id, data, 30))
    /\ UNCHANGED <<now, appts, total_consultations, absences, exceptions, calls, doctor_fees>>

update_availability_slot(doctor_id, slot_id, data) ==
    /\ slot_id \in DOMAIN slots
    /\ slots[slot_id].doctor_id = doctor_id
    /\ slots' = [slots EXCEPT ![slot_id] =
          [@ EXCEPT
             !.start_time = IF data.start_time # NULL THEN data.start_time[1] ELSE @,
             !.end_time = IF data.end_time # NULL THEN data.end_time[1] ELSE @,
             !.consultation_type = IF data.consultation_type # NULL
                                   THEN data.consultation_type[1] ELSE @,
             !.slot_duration_minutes = IF data.slot_duration_minutes # NULL
                                       THEN data.slot_duration_minutes[1] ELSE @,
             !.break_start = IF data.break_start # NULL THEN data.break_start ELSE @,
             !.break_end = IF data.break_end # NULL THEN data.break_end ELSE @,
             !.is_active = IF data.is_active # NULL THEN data.is_active[1] ELSE @]]
    /\ UNCHANGED <<now, appts, total_consultations, absences, exceptions, calls, doctor_fees>>

delete_availability_slot(doctor_id, slot_id) ==
    /\ slot_id \in DOMAIN slots
    /\ slots[slot_id].doctor_id = doctor_id
    /\ slots' = RemoveSlots(slots, {slot_id})
    /\ UNCHANGED <<now, appts, total_consultations, absences, exceptions, calls, doctor_fees>>

\* for slot_data in day_schedule.slots: db.add(DoctorAvailability(...))
RECURSIVE AddDaySlots(_, _, _, _)
AddDaySlots(rows, doctor_id, day_slots, default_slot_duration) ==
    IF day_slots = <<>> THEN rows
    ELSE AddDaySlots(InsertSlot(rows, NewSlot(doctor_id, Head(day_slots),
                                              default_slot_duration)),
                     doctor_id, Tail(day_slots), default_slot_duration)

\* for day_schedule in data.schedule: delete the day's rows, add the new ones
RECURSIVE ReplaceDays(_, _, _, _)
ReplaceDays(rows, doctor_id, schedule, default_slot_duration) ==
    IF schedule = <<>> THEN rows
    ELSE LET day_schedule == Head(schedule)
             kept == RemoveSlots(rows, {i \in DOMAIN rows :
                         /\ rows[i].doctor_id = doctor_id
                         /\ rows[i].day_of_week = day_schedule.day_of_week})
         IN  ReplaceDays(IF day_schedule.is_working_day
                         THEN AddDaySlots(kept, doctor_id, day_schedule.slots,
                                          default_slot_duration)
                         ELSE kept,
                         doctor_id, Tail(schedule), default_slot_duration)

\* the field validation of WorkingHoursRequest
WorkingHoursRequest(data) ==
    /\ data.default_slot_duration >= 10 /\ data.default_slot_duration <= 120
    /\ \A k \in DOMAIN data.schedule :
          /\ data.schedule[k].day_of_week >= 0 /\ data.schedule[k].day_of_week <= 6
          /\ \A n \in DOMAIN data.schedule[k].slots :
                AvailabilitySlotCreate(data.schedule[k].slots[n])

set_working_hours(doctor_id, data) ==
    /\ WorkingHoursRequest(data)
    /\ slots' = ReplaceDays(slots, doctor_id, data.schedule, data.default_slot_duration)
    /\ UNCHANGED <<now, appts, total_consultations, absences, exceptions, calls, doctor_fees>>

\* "HH:MM" is the pair <<HH, MM>>
parse_time(time_str) == time_str[1] * 60 + time_str[2]

format_time(t) == <<t \div 60, t % 60>>

\* DoctorAvailability.total_minutes
total_minutes(slot) ==
    LET total == slot.end_time - slot.start_time
        without_break ==
            IF slot.break_start # NULL /\ slot.break_end # NULL
            THEN total - (slot.break_end[1] - slot.break_start[1])
            ELSE total
    IN  IF without_break > 0 THEN without_break ELSE 0

\* DoctorAvailability.slot_count
slot_count(slot) ==
    IF slot.slot_duration_minutes <= 0 THEN 0
    ELSE total_minutes(slot) \div slot.slot_duration_minutes

\* the rows ids, ordered by start_time (rows with equal start times by id)
RECURSIVE OrderByStartTime(_)
OrderByStartTime(ids) ==
    IF ids = {} THEN <<>>
    ELSE LET first == CHOOSE i \in ids : \A j \in ids :
                          \/ slots[i].start_time < slots[j].start_time
                          \/ slots[i].start_time = slots[j].start_time /\ i <= j
         IN  <<first>> \o OrderByStartTime(ids \ {first})

RECURSIVE SumOf(_, _)
SumOf(values, k) ==
    IF k = 0 THEN 0 ELSE values[k] + SumOf(values, k - 1)

AvailabilitySlotResponse(i) ==
    [id |-> i,
     doctor_id |-> slots[i].doctor_id,
     day_of_week |-> slots[i].day_of_week,
     start_time |-> format_time(slots[i].start_time),
     end_time |-> format_time(slots[i].end_time),
     consultation_type |-> slots[i].consultation_type,
     slot_duration_minutes |-> slots[i].slot_duration_minutes,
     break_start |-> IF slots[i].break_start # NULL
                     THEN Some(format_time(slots[i].break_start[1])) ELSE NULL,
     break_end |-> IF slots[i].break_end # NULL
                   THEN Some(format_time(slots[i].break_end[1])) ELSE NULL,
     is_active |-> slots[i].is_active,
     slot_count |-> slot_count(slots[i])]

\* the entry of one day; total_minutes is the numerator of total_hours
DayScheduleResponse(doctor_id, day) ==
    LET day_slots == OrderByStartTime({i \in DOMAIN slots :
                         /\ slots[i].doctor_id = doctor_id
                         /\ slots[i].is_active
                         /\ slots[i].day_of_week = day})
    IN  [day_of_week |-> day,
         is_working_day |-> Len(day_slots) > 0,
         slots |-> [k \in DOMAIN day_slots |-> AvailabilitySlotResponse(day_slots[k])],
         total_minutes |-> SumOf([k \in DOMAIN day_slots |->
                                    total_minutes(slots[day_slots[k]])], Len(day_slots)),
         total_slots |-> SumOf([k \in DOMAIN day_slots |->
                                  slot_count(slots[day_slots[k]])], Len(day_slots))]

\* the schedule of WeeklyScheduleResponse
get_weekly_schedule(doctor_id) ==
    [k \in 1..7 |-> DayScheduleResponse(doctor_id, k - 1)]

\* date.weekday(): day 0 of the model is a Monday
weekday(d) == d % 7

\* the rows get_exceptions returns for the range
get_exceptions(doctor_id, start_date, end_date) ==
    {i \in DOMAIN exceptions :
        /\ exceptions[i].doctor_id = doctor_id
        /\ exceptions[i].exception_date >= start_date
        /\ exceptions[i].exception_date <= end_date}

\* the dictionaries {exc.exception_date: exc} can be: the rows of one date come
\* in an order the query leaves open, and the last of them stays in the dict
ExceptionsByDate(doctor_id, start_date, end_date) ==
    LET fetched == get_exceptions(doctor_id, start_date, end_date)
        dates == {exceptions[i].exception_date : i \in fetched}
    IN  {by_date \in [dates -> fetched] :
            \A d \in dates : exceptions[by_date[d]].exception_date = d}

\* the absences fetched for the range
ComputedAbsences(doctor_id, start_date, end_date) ==
    {i \in DOMAIN absences :
        /\ absences[i].doctor_id = doctor_id
        /\ absences[i].is_active
        /\ absences[i].start_date <= end_date
        /\ absences[i].end_date >= start_date}

\* the appointments fetched for the range
ComputedAppointments(doctor_id, start_date, end_date) ==
    {i \in DOMAIN appts :
        /\ appts[i].doctor_id = doctor_id
        /\ appts[i].status \in {"pending", "confirmed"}
        /\ appts[i].appointment_date >= start_date * MinutesPerDay
        /\ appts[i].appointment_date <= end_date * MinutesPerDay + (MinutesPerDay - 1)}

\* mutant: an appointment that only touches the sub-slot counts too
BookingAppointments_touching(appointments, current_time, slot_end_time) ==
    {i \in appointments :
        LET appt_start == appts[i].appointment_date
            appt_end == appt_start + appts[i].duration_minutes
        IN  ~(slot_end_time < appt_start \/ current_time > appt_end)}

\* the fetched appointments at which the loop over appointments can stop
BookingAppointments(appointments, current_time, slot_end_time) ==
    {i \in appointments :
        LET appt_start == appts[i].appointment_date
            appt_end == appt_start + appts[i].duration_minutes
        IN  ~(slot_end_time <= appt_start \/ current_time >= appt_end)}

\* mutant: only a sub-slot that lies wholly inside the break is in it
in_break_whole(slot_info, current_time, slot_end_time) ==
    /\ slot_info.break_start # NULL /\ slot_info.break_end # NULL
    /\ TimeOf(current_time) >= parse_time(slot_info.break_start[1])
    /\ TimeOf(slot_end_time) <= parse_time(slot_info.break_end[1])

\* the sub-slot [current_time, slot_end_time) is in the break of the slot
in_break(slot_info, current_time, slot_end_time) ==
    /\ slot_info.break_start # NULL /\ slot_info.break_end # NULL
    /\ ~ \/ TimeOf(current_time) >= parse_time(slot_info.break_end[1])
         \/ TimeOf(slot_end_time) <= parse_time(slot_info.break_start[1])

\* the sub-slots of one slot of the schedule from current_time on;
\* appointment_ids holds the ids appointment_id can be (none: it is None)
RECURSIVE ComputedTimeSlots(_, _, _, _)
ComputedTimeSlots(slot_info, current_time, end_time, appointments) ==
    LET duration == slot_info.slot_duration_minutes
        slot_end_time == current_time + duration
        booking == BookingAppointments(appointments, current_time, slot_end_time)
        is_booked == booking # {}
    IN  IF current_time + duration <= end_time
        THEN (IF in_break(slot_info, current_time, slot_end_time) THEN <<>>
              ELSE << [start_time |-> format_time(TimeOf(current_time)),
                       end_time |-> format_time(TimeOf(slot_end_time)),
                       is_available |-> ~is_booked,
                       is_booked |-> is_booked,
                       appointment_ids |-> booking,
                       consultation_type |-> slot_info.consultation_type] >>)
             \o ComputedTimeSlots(slot_info, slot_end_time, end_time, appointments)
        ELSE <<>>

\* the sub-slots of the first k slots of the day
RECURSIVE ComputedDaySlots(_, _, _, _)
ComputedDaySlots(slot_infos, k, current_date, appointments) ==
    IF k = 0 THEN <<>>
    ELSE ComputedDaySlots(slot_infos, k - 1, current_date, appointments)
         \o ComputedTimeSlots(slot_infos[k],
                current_date * MinutesPerDay + parse_time(slot_infos[k].start_time),
                current_date * MinutesPerDay + parse_time(slot_infos[k].end_time),
                appointments)

RECURSIVE CountOf(_, _, _)
CountOf(time_slots, field, k) ==
    IF k = 0 THEN 0
    ELSE (IF time_slots[k][field] THEN 1 ELSE 0) + CountOf(time_slots, field, k - 1)

\* one day of the answer.  block_reason is the text of a row: <<"absence", S>>
\* for the title or type of an absence of S (the loop over the absences stops at
\* the first full-day one, in the order the query gave), <<"exception", j>> for
\* the reason of exception j or "Blocked"
ComputedDayAvailability(doctor_id, current_date, schedule, fetched_absences, appointments, exceptions_by_date) ==
    LET day_of_week == weekday(current_date)
        day_schedule == schedule[day_of_week + 1]
        is_blocked ==
            \/ \E i \in fetched_absences :
                  /\ absences[i].start_date <= current_date
                  /\ current_date <= absences[i].end_date
                  /\ is_full_day(absences[i])
            \/ /\ current_date \in DOMAIN exceptions_by_date
               /\ ~exceptions[exceptions_by_date[current_date]].is_available
               /\ exception_is_full_day(exceptions[exceptions_by_date[current_date]])
        blocking_absences ==
            {i \in fetched_absences :
                /\ absences[i].start_date <= current_date
                /\ current_date <= absences[i].end_date
                /\ is_full_day(absences[i])}
        exception_blocks ==
            /\ current_date \in DOMAIN exceptions_by_date
            /\ ~exceptions[exceptions_by_date[current_date]].is_available
            /\ exception_is_full_day(exceptions[exceptions_by_date[current_date]])
        block_reason ==
            IF exception_blocks THEN Some(<<"exception", exceptions_by_date[current_date]>>)
            ELSE IF blocking_absences # {} THEN Some(<<"absence", blocking_absences>>)
            ELSE NULL
        time_slots ==
            IF ~is_blocked /\ day_schedule.is_working_day
            THEN ComputedDaySlots(day_schedule.slots, Len(day_schedule.slots),
                                  current_date, appointments)
            ELSE <<>>
    IN  [date |-> current_date,
         day_of_week |-> day_of_week,
         is_working_day |-> day_schedule.is_working_day /\ ~is_blocked,
         is_blocked |-> is_blocked,
         block_reason |-> block_reason,
         slots |-> time_slots,
         available_slot_count |-> CountOf(time_slots, "is_available", Len(time_slots)),
         booked_slot_count |-> CountOf(time_slots, "is_booked", Len(time_slots))]

\* the days of ComputedAvailabilityResponse, for one of the dictionaries
\* ExceptionsByDate(doctor_id, start_date, end_date)
get_computed_availability(doctor_id, start_date, end_date, exceptions_by_date) ==
    LET schedule == get_weekly_schedule(doctor_id)
        fetched_absences == ComputedAbsences(doctor_id, start_date, end_date)
        appointments == ComputedAppointments(doctor_id, start_date, end_date)
    IN  [k \in 1..(end_date - start_date + 1) |->
            ComputedDayAvailability(doctor_id, start_date + k - 1, schedule,
                                    fetched_absences, appointments, exceptions_by_date)]

----------------------------------------------------------------------------
(* Requests served one at a time *)

\* a draw of generate_confirmation_code: the code of a stored appointment, or a
\* code no appointment has (all unused codes are alike: the least stands for them)
Draws ==
    LET used == {appts[i].confirmation_code : i \in DOMAIN appts}
        unused == Codes \ used
    IN  used \cup (IF unused = {} THEN {} ELSE {CHOOSE c \in unused : \A x \in unused : c <= x})

\* the draws that collide with no stored code
FreshDraws == {c \in Draws : code_is_unique(c)}

ApptIds == 1..MaxAppts

Init ==
    /\ now = 0
    /\ appts = <<>>
    /\ total_consultations = [d \in DoctorIds |-> 0]
    /\ absences = <<>>
    /\ exceptions = <<>>
    /\ calls = [p \in PatientIds |-> IdleCall]
    /\ doctor_fees = [d \in DoctorIds |->
                        [presentiel |-> Doctor(d).consultation_fee_presentiel,
                         online |-> Doctor(d).consultation_fee_online]]
    /\ slots = <<>>

Book ==
    \E p \in Bookers, d \in DoctorIds \cup {UnknownDoctor}, t \in Dates,
       ct \in ConsultationTypes, code \in Draws :
        /\ Len(appts) < MaxAppts
        /\ create_appointment(p, d, t, ct, code)

Confirm ==
    \E a \in ApptIds, u \in Users : confirm_appointment(a, u)

Cancel ==
    \E a \in ApptIds, u \in Users, is_doctor \in BOOLEAN :
        cancel_appointment(a, u, is_doctor)

Reschedule ==
    \E a \in ApptIds, p \in PatientIds, t \in Dates : reschedule_appointment(a, p, t)

Complete ==
    \E a \in ApptIds, u \in Users : mark_completed(a, u)

NoShow ==
    \E a \in ApptIds, u \in Users : mark_no_show(a, u)

Next ==
    \/ Book
    \/ Confirm
    \/ Cancel
    \/ Reschedule
    \/ Complete
    \/ NoShow
    \/ Tick

Spec == Init /\ [][Next]_vars

----------------------------------------------------------------------------
(* Two patients book at the same time: the steps of their create_appointment   *)
(* requests interleave.  The two draws of the confirmation code differ (a      *)
(* colliding draw is studied under Spec).                                      *)

ConcBegin ==
    \E p \in PatientIds, d \in DoctorIds \cup {UnknownDoctor}, t \in Dates,
       ct \in ConsultationTypes : create_appointment_begin(p, d, t, ct)

ConcCheck ==
    \E p \in PatientIds : create_appointment_check(p)

ConcInsert ==
    \E p \in PatientIds, code \in FreshDraws : create_appointment_insert(p, code)

NextConc ==
    \/ ConcBegin
    \/ ConcCheck
    \/ ConcInsert

SpecConc == Init /\ [][NextConc]_vars

----------------------------------------------------------------------------
(* A patient books while another patient moves an appointment: p2 holds an    *)
(* appointment with a doctor, p1 books and p2 reschedules, and the round      *)
(* trips of the two requests interleave                                        *)

InitRace ==
    /\ now = 0
    /\ doctor_fees = [d \in DoctorIds |->
                        [presentiel |-> Doctor(d).consultation_fee_presentiel,
                         online |-> Doctor(d).consultation_fee_online]]
    /\ \E d \in {"d1", "d2"}, t \in Dates, st \in {"pending", "confirmed"} :
          appts = << [NewAppointment("p2", d, t,
                                     IF d = "d2" THEN "online" ELSE "presentiel", 1)
                        EXCEPT !.status = st,
                               !.confirmed_at = IF st = "confirmed"
                                                THEN Stamped ELSE NULL] >>
    /\ total_consultations = [d \in DoctorIds |-> 0]
    /\ absences = <<>>
    /\ exceptions = <<>>
    /\ calls = [p \in PatientIds |-> IdleCall]
    /\ slots = <<>>

\* p1 books and p2 moves its appointment
NextRace ==
    \/ \E d \in DoctorIds \cup {UnknownDoctor}, t \in Dates, ct \in ConsultationTypes :
          create_appointment_begin("p1", d, t, ct)
    \/ create_appointment_check("p1")
    \/ \E code \in FreshDraws : create_appointment_insert("p1", code)
    \/ \E a \in ApptIds, t \in Dates : reschedule_appointment_begin("p2", a, t)
    \/ reschedule_appointment_check("p2")
    \/ reschedule_appointment_write("p2")

SpecRace == InitRace /\ [][NextRace]_vars

----------------------------------------------------------------------------
(* A doctor's consultations are completed in two sessions at once, while      *)
(* appointments are confirmed, cancelled and rescheduled                       *)

InitTally ==
    /\ now = 0
    /\ doctor_fees = [d \in DoctorIds |->
                        [presentiel |-> Doctor(d).consultation_fee_presentiel,
                         online |-> Doctor(d).consultation_fee_online]]
    /\ \E first \in ActiveStatuses, second \in ActiveStatuses :
          appts = << [NewAppointment("p1", "d1", MinutesPerDay + TimeStep,
                                     "presentiel", 1)
                        EXCEPT !.status = first,
                               !.confirmed_at = IF first = "confirmed"
                                                THEN Stamped ELSE NULL],
                     [NewAppointment("p1", "d1", MinutesPerDay + 3 * TimeStep,
                                     "presentiel", 2)
                        EXCEPT !.status = second,
                               !.confirmed_at = IF second = "confirmed"
                                                THEN Stamped ELSE NULL] >>
    /\ total_consultations = [d \in DoctorIds |-> 0]
    /\ absences = <<>>
    /\ exceptions = <<>>
    /\ calls = [c \in {"s1", "s2"} |-> IdleCompletion]
    /\ slots = <<>>

NextTally ==
    \/ \E c \in DOMAIN calls, a \in ApptIds, u \in {"ud1", "ud2"} :
          mark_completed_load(c, a, u)
    \/ \E c \in DOMAIN calls : mark_completed_doctor(c)
    \/ \E c \in DOMAIN calls : mark_completed_commit(c)
    \/ Confirm
    \/ Cancel
    \/ Reschedule

SpecTally == InitTally /\ [][NextTally]_vars

----------------------------------------------------------------------------
(* Doctors declare absences and exceptions while patients book *)

Days == {DateOf(t) : t \in Dates} \cup {DateOf(t) + 1 : t \in Dates}

\* (start_time, end_time) of an absence or exception: the full day, or a window
\* holding the first requested start time only
Windows == {<<NULL, NULL>>, <<Some(TimeStep), Some(2 * TimeStep)>>}

AbsenceIds == 1..MaxBlocks

AddAbsence ==
    \E d \in DoctorIds, sd \in Days, ed \in Days, w \in Windows,
       notify \in BOOLEAN :
        /\ Len(absences) + Len(exceptions) < MaxBlocks
        /\ create_absence(d, sd, ed, w[1], w[2], notify)

RemoveAbsence ==
    \E d \in DoctorIds, i \in AbsenceIds :
        /\ i \in DOMAIN absences
        /\ absences[i].is_active
        /\ delete_absence(d, i)

AddException ==
    \E d \in DoctorIds, day \in Days, w \in Windows, is_available \in BOOLEAN :
        /\ Len(absences) + Len(exceptions) < MaxBlocks
        /\ create_exception(d, day, w[1], w[2], is_available)

NextBlock ==
    \/ Book
    \/ AddAbsence
    \/ RemoveAbsence
    \/ AddException

SpecBlock == Init /\ [][NextBlock]_vars

----------------------------------------------------------------------------
(* Doctors change their prices while appointments are booked and handled *)

\* the prices a doctor may set
NewPrices == {45}

PricedBook ==
    \E p \in Bookers, d \in DoctorIds \cup {UnknownDoctor}, t \in Dates,
       ct \in ConsultationTypes, code \in Draws :
        /\ Len(appts) < MaxPriced
        /\ create_appointment(p, d, t, ct, code)

UpdatePrices ==
    \E u \in Users,
       fee_presentiel \in {NULL} \cup {Some(f) : f \in NewPrices},
       fee_online \in {NULL} \cup {Some(f) : f \in NewPrices} :
        update_doctor_profile(u, fee_presentiel, fee_online)

NextFee ==
    \/ PricedBook
    \/ UpdatePrices
    \/ Confirm
    \/ Cancel
    \/ Reschedule
    \/ Complete
    \/ NoShow

SpecFee == Init /\ [][NextFee]_vars

----------------------------------------------------------------------------
(* Doctors edit their weekly slots *)

\* 09:00, 13:00, 17:00
SlotTimes == {9 * 60, 13 * 60, 17 * 60}

\* the (doctor, day of week) pairs that get slots
SlotOwners == {<<"d1", 0>>, <<"d1", 1>>, <<"d2", 0>>}

SlotDoctors == {o[1] : o \in SlotOwners}

\* the requests for a day, with a break of breaks, that pass the validation of
\* AvailabilitySlotCreate
SlotRequests(day, breaks) ==
    {data \in [day_of_week : {day}, start_time : SlotTimes, end_time : SlotTimes,
               consultation_type : {"both"}, slot_duration_minutes : {30},
               break_start : {w[1] : w \in breaks},
               break_end : {w[2] : w \in breaks}] :
        /\ AvailabilitySlotCreate(data)
        /\ <<data.break_start, data.break_end>> \in breaks}

NoBreak == {<<NULL, NULL>>}

\* an update of the end time, or of is_active
SlotUpdates ==
    {data \in [start_time : {NULL},
               end_time : {NULL} \cup {Some(t) : t \in SlotTimes},
               consultation_type : {NULL}, slot_duration_minutes : {NULL},
               break_start : {NULL}, break_end : {NULL},
               is_active : {NULL, Some(TRUE), Some(FALSE)}] :
        (data.is_active # NULL) = (data.end_time = NULL)}

\* the slot lists of a day in a working-hours request: none, one or two slots
DaySlotLists(day) ==
    {<<>>}
    \cup {<<first>> : first \in SlotRequests(day, NoBreak)}
    \cup {<<first, second>> : first \in SlotRequests(day, NoBreak),
                              second \in SlotRequests(day, NoBreak)}

CreateSlot ==
    \E o \in SlotOwners :
        \E data \in SlotRequests(o[2], NoBreak) :
            /\ Cardinality(DOMAIN slots) < MaxSlots
            /\ create_availability_slot(o[1], data)

UpdateSlot ==
    \E d \in SlotDoctors, i \in SlotIds, data \in SlotUpdates :
        update_availability_slot(d, i, data)

DeleteSlot ==
    \E d \in SlotDoctors, i \in SlotIds : delete_availability_slot(d, i)

\* one day of a doctor is replaced
SetWorkingHours ==
    \E o \in SlotOwners, is_working_day \in BOOLEAN :
        \E day_slots \in DaySlotLists(o[2]) :
            /\ ~is_working_day => day_slots = <<>>
            /\ Cardinality({i \in DOMAIN slots :
                    ~(slots[i].doctor_id = o[1] /\ slots[i].day_of_week = o[2])})
                  + Len(day_slots) <= MaxSlots
            /\ set_working_hours(o[1],
                  [schedule |-> << [day_of_week |-> o[2],
                                    is_working_day |-> is_working_day,
                                    slots |-> day_slots] >>,
                   default_slot_duration |-> 30])

NextAvail ==
    \/ CreateSlot
    \/ UpdateSlot
    \/ DeleteSlot
    \/ SetWorkingHours

SpecAvail == Init /\ [][NextAvail]_vars

----------------------------------------------------------------------------
(* Doctors publish weekly slots and block days, patients book and cancel, and *)
(* the computed availability of a range of dates is read                       *)

ComputedDoctors == {"d1", "d2"}

\* the dates a range starts and ends at: today and the day of the appointments
ComputedDates == {0, 1}

\* one hour from midnight in 30-minute sub-slots, with or without a break in
\* the second half hour, on the weekday of a date of ComputedDates
ComputedSlotRequests ==
    {data \in [day_of_week : {weekday(d) : d \in ComputedDates},
               start_time : {0}, end_time : {60},
               consultation_type : {"both"}, slot_duration_minutes : {30},
               break_start : {NULL, Some(30)}, break_end : {NULL, Some(60)}] :
        /\ AvailabilitySlotCreate(data)
        /\ (data.break_start = NULL) = (data.break_end = NULL)}

ComputedCreateSlot ==
    \E data \in ComputedSlotRequests :
        /\ Cardinality(DOMAIN slots) < MaxSlots
        /\ create_availability_slot("d1", data)

ComputedBook ==
    \E d \in ComputedDoctors, t \in Dates, ct \in ConsultationTypes, code \in FreshDraws :
        /\ Len(appts) < MaxAppts
        /\ create_appointment("p1", d, t, ct, code)

ComputedConfirm ==
    \E a \in ApptIds : confirm_appointment(a, "ud1")

ComputedCancel ==
    \E a \in ApptIds : cancel_appointment(a, "up1", FALSE)

\* the day of the appointments is blocked
ComputedException ==
    /\ Len(absences) + Len(exceptions) < MaxBlocks
    /\ create_exception("d1", 1, NULL, NULL, FALSE)

NextComputed ==
    \/ ComputedCreateSlot
    \/ ComputedBook
    \/ ComputedConfirm
    \/ ComputedCancel
    \/ ComputedException
    \/ Tick

SpecComputed == Init /\ [][NextComputed]_vars

----------------------------------------------------------------------------
(* A doctor with a weekly slot declares absences and exceptions, and the      *)
(* computed availability of the days they cover is read                        *)

DayDoctor == "d1"

DayDates == {1, 2}

\* one hour from midnight on the weekday of the first date
DayCreateSlot ==
    /\ Cardinality(DOMAIN slots) < 1
    /\ create_availability_slot(DayDoctor,
          [day_of_week |-> weekday(1), start_time |-> 0, end_time |-> 60,
           consultation_type |-> "both", slot_duration_minutes |-> 30,
           break_start |-> NULL, break_end |-> NULL])

DayAbsence ==
    \E sd \in DayDates, ed \in DayDates, w \in Windows :
        /\ Len(absences) < MaxBlocks
        /\ create_absence(DayDoctor, sd, ed, w[1], w[2], FALSE)

DayRemoveAbsence ==
    \E i \in AbsenceIds : delete_absence(DayDoctor, i)

DayException ==
    \E day \in DayDates, w \in Windows, is_available \in BOOLEAN :
        /\ Len(exceptions) < MaxExceptions
        /\ create_exception(DayDoctor, day, w[1], w[2], is_available)

NextDay ==
    \/ DayCreateSlot
    \/ DayAbsence
    \/ DayRemoveAbsence
    \/ DayException

SpecDay == Init /\ [][NextDay]_vars

----------------------------------------------------------------------------
(* A doctor with appointments on the books declares, edits and cancels        *)
(* absences                                                                    *)

AbsenceDoctor == "d1"

\* the appointments the tables are made of: two confirmed ones back to back at
\* 10:00 and 10:30 of day 1, a pending one at 23:45 of day 1 that ends after
\* midnight, a cancelled one on day 2, and one of another doctor
BookedAppointments ==
    << [doctor_id |-> "d1", appointment_date |-> MinutesPerDay + 10 * 60,
        status |-> "confirmed"],
       [doctor_id |-> "d1", appointment_date |-> MinutesPerDay + 10 * 60 + 30,
        status |-> "confirmed"],
       [doctor_id |-> "d1", appointment_date |-> MinutesPerDay + 23 * 60 + 45,
        status |-> "pending"],
       [doctor_id |-> "d1", appointment_date |-> 2 * MinutesPerDay + 10 * 60,
        status |-> "cancelled"],
       [doctor_id |-> "d2", appointment_date |-> MinutesPerDay + 10 * 60,
        status |-> "confirmed"] >>

\* the rows of the appointments picked, in the order of BookedAppointments,
\* the next confirmation code being code
RECURSIVE AppointmentTable(_, _)
AppointmentTable(picked, code) ==
    IF picked = {} THEN <<>>
    ELSE LET k == CHOOSE x \in picked : \A y \in picked : x <= y
             st == BookedAppointments[k].status
             d == BookedAppointments[k].doctor_id
         IN  << [NewAppointment("p1", d, BookedAppointments[k].appointment_date,
                                IF d = "d2" THEN "online" ELSE "presentiel", code)
                   EXCEPT !.status = st,
                          !.confirmed_at = IF st = "confirmed" THEN Stamped ELSE NULL,
                          !.cancelled_at = IF st = "cancelled" THEN Stamped ELSE NULL,
                          !.cancelled_by = IF st = "cancelled"
                                           THEN "patient" ELSE "None"] >>
             \o AppointmentTable(picked \ {k}, code + 1)

InitAbsence ==
    /\ now = 0
    /\ doctor_fees = [d \in DoctorIds |->
                        [presentiel |-> Doctor(d).consultation_fee_presentiel,
                         online |-> Doctor(d).consultation_fee_online]]
    /\ \E picked \in SUBSET DOMAIN BookedAppointments :
          /\ Cardinality(picked) <= MaxAppts
          /\ appts = AppointmentTable(picked, 1)
    /\ total_consultations = [d \in DoctorIds |-> 0]
    /\ absences = <<>>
    /\ exceptions = <<>>
    /\ calls = [p \in PatientIds |-> IdleCall]
    /\ slots = <<>>

\* the full day, or 10:00-10:30
AbsenceWindows == {<<NULL, NULL>>, <<Some(10 * 60), Some(10 * 60 + 30)>>}

\* requests that send one field: the end date, the start time, or is_active
AbsenceUpdates ==
    {data \in [start_date : {NULL}, end_date : {NULL, Some(1), Some(2)},
               start_time : {NULL, Some(10 * 60 + 30)}, end_time : {NULL},
               notify_patients : {NULL}, is_active : {NULL, Some(FALSE)}] :
        Cardinality({f \in {"end_date", "start_time", "is_active"} :
                        data[f] # NULL}) = 1}

AbsenceCreate ==
    \E ed \in {1, 2}, w \in AbsenceWindows, notify \in BOOLEAN :
        /\ Len(absences) < MaxBlocks
        /\ create_absence(AbsenceDoctor, 1, ed, w[1], w[2], notify)

AbsenceUpdate ==
    \E i \in AbsenceIds, data \in AbsenceUpdates :
        update_absence(AbsenceDoctor, i, data)

AbsenceDelete ==
    \E i \in AbsenceIds : delete_absence(AbsenceDoctor, i)

NextAbsence ==
    \/ AbsenceCreate
    \/ AbsenceUpdate
    \/ AbsenceDelete

SpecAbsence == InitAbsence /\ [][NextAbsence]_vars

----------------------------------------------------------------------------
(* A doctor publishes and removes slots whose break need not fall on the      *)
(* bounds of the sub-slots, and the computed availability is read              *)

BreakDoctor == "d1"

BreakDates == {0, 1}

\* none, 09:30-10:00, 09:45-10:15, and 10:15-09:45 (the request is not refused)
BreakWindows ==
    {<<NULL, NULL>>,
     <<Some(9 * 60 + 30), Some(10 * 60)>>,
     <<Some(9 * 60 + 45), Some(10 * 60 + 15)>>,
     <<Some(10 * 60 + 15), Some(9 * 60 + 45)>>}

\* 09:00-11:00 in sub-slots of 30 or 45 minutes
BreakSlotRequests ==
    {data \in [day_of_week : {weekday(d) : d \in BreakDates},
               start_time : {9 * 60}, end_time : {11 * 60},
               consultation_type : {"both"}, slot_duration_minutes : {30, 45},
               break_start : {w[1] : w \in BreakWindows},
               break_end : {w[2] : w \in BreakWindows}] :
        /\ AvailabilitySlotCreate(data)
        /\ <<data.break_start, data.break_end>> \in BreakWindows}

BreakCreateSlot ==
    \E data \in BreakSlotRequests :
        /\ Cardinality(DOMAIN slots) < MaxSlots
        /\ create_availability_slot(BreakDoctor, data)

BreakDeleteSlot ==
    \E i \in SlotIds : delete_availability_slot(BreakDoctor, i)

NextBreak ==
    \/ BreakCreateSlot
    \/ BreakDeleteSlot

SpecBreak == Init /\ [][NextBreak]_vars

----------------------------------------------------------------------------
(* A doctor edits weekly slots that have breaks, and reads the schedule *)

\* no break, or the break 12:00-13:00
Breaks == {<<NULL, NULL>>, <<Some(12 * 60), Some(13 * 60)>>}

WeekDoctor == "d1"

WeekDays == {0, 1}

\* an update of one field: the end time, a bound of the break, or is_active
WeekUpdates ==
    {data \in [start_time : {NULL},
               end_time : {NULL, Some(9 * 60)},
               consultation_type : {NULL}, slot_duration_minutes : {NULL},
               break_start : {NULL, Some(12 * 60)},
               break_end : {NULL, Some(13 * 60)},
               is_active : {NULL, Some(FALSE)}] :
        Cardinality({f \in {"end_time", "break_start", "break_end", "is_active"} :
                        data[f] # NULL}) = 1}

WeekCreateSlot ==
    \E day \in WeekDays :
        \E data \in SlotRequests(day, Breaks) :
            /\ Cardinality(DOMAIN slots) < MaxSlots
            /\ create_availability_slot(WeekDoctor, data)

WeekUpdateSlot ==
    \E i \in SlotIds, data \in WeekUpdates :
        update_availability_slot(WeekDoctor, i, data)

\* one day is replaced by one slot
WeekSetWorkingHours ==
    \E day \in WeekDays :
        \E data \in SlotRequests(day, Breaks) :
            /\ Cardinality({i \in DOMAIN slots :
                    ~(slots[i].doctor_id = WeekDoctor /\ slots[i].day_of_week = day)})
                  < MaxSlots
            /\ set_working_hours(WeekDoctor,
                  [schedule |-> << [day_of_week |-> day, is_working_day |-> TRUE,
                                    slots |-> <<data>>] >>,
                   default_slot_duration |-> 30])

NextWeek ==
    \/ WeekCreateSlot
    \/ WeekUpdateSlot
    \/ WeekSetWorkingHours

SpecWeek == Init /\ [][NextWeek]_vars

----------------------------------------------------------------------------
(* The clock runs, minute by minute, past the start of one appointment of any  *)
(* consultation type and status *)

\* the appointment starts at 10:00 on day 1
VideoStart == MinutesPerDay + 10 * 60

\* the instants the clock runs through: 09:40 to 11:05
VideoInstants == (VideoStart - 20)..(VideoStart + 65)

AppointmentStatuses == {"pending", "confirmed", "cancelled", "completed", "no_show"}

InitVideo ==
    /\ now = VideoStart - 20
    /\ doctor_fees = [d \in DoctorIds |->
                        [presentiel |-> Doctor(d).consultation_fee_presentiel,
                         online |-> Doctor(d).consultation_fee_online]]
    /\ \E ct \in ConsultationTypes, st \in AppointmentStatuses :
          appts = << [NewAppointment("p1", IF ct = "online" THEN "d2" ELSE "d1",
                                     VideoStart, ct, 1)
                        EXCEPT !.status = st,
                               !.confirmed_at = IF st \in {"pending", "cancelled"}
                                                THEN NULL ELSE Stamped,
                               !.cancelled_at = IF st = "cancelled"
                                                THEN Stamped ELSE NULL,
                               !.cancelled_by = IF st = "cancelled"
                                                THEN "doctor" ELSE "None"] >>
    /\ total_consultations = [d \in DoctorIds |-> 0]
    /\ absences = <<>>
    /\ exceptions = <<>>
    /\ calls = [p \in PatientIds |-> IdleCall]
    /\ slots = <<>>

VideoTick ==
    /\ now + 1 \in VideoInstants
    /\ now' = now + 1
    /\ UNCHANGED <<appts, total_consultations, absences, exceptions, calls, doctor_fees, slots>>

NextVideo == VideoTick

SpecVideo == InitVideo /\ [][NextVideo]_vars

----------------------------------------------------------------------------
(* Properties of the appointment lifecycle, requests served one at a time *)

Terminal == {"cancelled", "completed", "no_show"}

\* the rows other than appointment_id are the same before and after the step
OthersUnchanged(appointment_id) ==
    /\ Len(appts') = Len(appts)
    /\ \A j \in DOMAIN appts : j # appointment_id => appts'[j] = appts[j]

OwnerDoctorUser(i) == Doctor(appts[i].doctor_id).user_id
OwnerPatientUser(i) == Patient(appts[i].patient_id).user_id

\* C1: no two pending/confirmed appointments of the same doctor occupy
\* overlapping windows [start, start + 30 min), whatever sequence of book,
\* reschedule, confirm, cancel, complete and no-show requests was served.
C1_NoOverlappingActive ==
    \A i, j \in DOMAIN appts :
        ( /\ i # j
          /\ appts[i].doctor_id = appts[j].doctor_id
          /\ appts[i].status \in ActiveStatuses
          /\ appts[j].status \in ActiveStatuses )
        => ~( /\ appts[i].appointment_date < appts[j].appointment_date + 30
              /\ appts[j].appointment_date < appts[i].appointment_date + 30 )

\* two active appointments of one doctor, back to back
C1_Witness ==
    \E i, j \in DOMAIN appts :
        /\ appts[i].doctor_id = appts[j].doctor_id
        /\ appts[i].status \in ActiveStatuses
        /\ appts[j].status \in ActiveStatuses
        /\ appts[j].appointment_date = appts[i].appointment_date + 30

\* the active appointments of doctor_id that start at appointment_date
BookedAt(doctor_id, appointment_date) ==
    {i \in DOMAIN appts :
        /\ appts[i].doctor_id = doctor_id
        /\ appts[i].appointment_date = appointment_date
        /\ appts[i].status \in ActiveStatuses}

\* C2 (as claimed): when the create_appointment requests of two callers for the
\* same doctor and the same start time have both ended, whatever the order of
\* their check and insert steps, exactly one appointment was created and the
\* other caller got the slot-conflict error.
C2_OneOfTwoConcurrentBookings ==
    \A p, q \in PatientIds :
        ( /\ p # q
          /\ calls[p].pc = "done" /\ calls[q].pc = "done"
          /\ calls[p].doctor_id = calls[q].doctor_id
          /\ calls[p].appointment_date = calls[q].appointment_date
          /\ create_appointment_doctor_checks(calls[p].doctor_id,
                  calls[p].consultation_type) = "pass"
          /\ create_appointment_doctor_checks(calls[q].doctor_id,
                  calls[q].consultation_type) = "pass" )
        => /\ Cardinality(BookedAt(calls[p].doctor_id,
                                    calls[p].appointment_date)) = 1
           /\ {calls[p].response, calls[q].response}
                  = {"201", "409 slot not available"}

\* the exceptions_by_date entry of the day blocks the whole day
FullDayBlockingException(doctor_id, day) ==
    \E i \in DOMAIN exceptions :
        /\ exceptions[i].doctor_id = doctor_id
        /\ exceptions[i].exception_date = day
        /\ ~exceptions[i].is_available
        /\ exception_is_full_day(exceptions[i])

\* an active full-day absence of the doctor covers the day
FullDayAbsence(doctor_id, day) ==
    \E i \in get_absences_for_date_range(doctor_id, day, day) :
        is_full_day(absences[i])

\* C3 (as claimed): no create_appointment creates an appointment whose start
\* date is covered by an active full-day absence of the doctor or by a full-day
\* blocking exception of the doctor on that date.
C3_BlockedDateRejected ==
    [][\A p \in PatientIds, d \in DoctorIds, t \in Dates,
         ct \in ConsultationTypes, code \in Codes :
          ( \/ FullDayAbsence(d, DateOf(t))
            \/ FullDayBlockingException(d, DateOf(t)) )
          => ~create_appointment(p, d, t, ct, code)]_vars

\* the slot [appointment_date, appointment_date + 30 min) overlaps an active
\* appointment of the doctor
SlotOverlaps(doctor_id, appointment_date) ==
    \E i \in DOMAIN appts :
        /\ appts[i].doctor_id = doctor_id
        /\ appts[i].status \in ActiveStatuses
        /\ appts[i].appointment_date < appointment_date + 30
        /\ appointment_date < appts[i].appointment_date + 30

C4_CreateResponse ==
    \A d \in DoctorIds \cup {UnknownDoctor}, t \in Dates,
       ct \in ConsultationTypes, code \in Draws :
        create_appointment_response(d, t, ct, code) =
            (IF d \notin DoctorIds THEN "404 doctor not found"
             ELSE IF ~Doctor(d).is_accepting_patients THEN "400 not accepting"
             ELSE IF ct = "presentiel" /\ ~Doctor(d).offers_presentiel
                  THEN "400 presentiel not offered"
             ELSE IF ct = "online" /\ ~Doctor(d).offers_online
                  THEN "400 online not offered"
             ELSE IF SlotOverlaps(d, t) THEN "409 slot not available"
             ELSE "201")

C4_CreateEffect ==
    \A p \in PatientIds, d \in DoctorIds \cup {UnknownDoctor}, t \in Dates,
       ct \in ConsultationTypes, code \in Codes :
        create_appointment(p, d, t, ct, code) =>
            /\ Len(appts') = Len(appts) + 1
            /\ \A i \in DOMAIN appts : appts'[i] = appts[i]
            /\ appts'[Len(appts')].status = "pending"

\* C4 (as claimed): create_appointment answers 201 and appends exactly one
\* pending appointment when the doctor exists, is accepting patients, offers the
\* consultation type and the slot overlaps no pending/confirmed appointment of
\* the doctor; otherwise it answers with the error of the failing guard (not
\* found, not accepting, type not offered, slot conflict) and stores nothing.
C4_CreateOnlyWhenGuardsPass == []C4_CreateResponse /\ [][C4_CreateEffect]_vars

\* C5 (as claimed): once an appointment is cancelled, completed or no_show, no
\* request changes its status.
C5_TerminalIsFinal ==
    [][\A i \in DOMAIN appts :
          appts[i].status \in Terminal => appts'[i].status = appts[i].status]_vars

\* the response of confirm_appointment, by status and actor
C6_ConfirmResponse ==
    \A a \in DOMAIN appts, u \in Users :
        LET r == confirm_appointment_response(a, u)
        IN  /\ (r = "200") <=> (appts[a].status = "pending" /\ u = OwnerDoctorUser(a))
            /\ u # OwnerDoctorUser(a) => r = "403 not authorized"
            /\ (u = OwnerDoctorUser(a) /\ appts[a].status # "pending")
                   => r = "400 cannot confirm"

\* a step of confirm_appointment: only from pending, only by the doctor
C6_ConfirmEffect ==
    \A a \in DOMAIN appts, u \in Users :
        confirm_appointment(a, u) =>
            /\ appts[a].status = "pending" /\ u = OwnerDoctorUser(a)
            /\ appts'[a] = [appts[a] EXCEPT !.status = "confirmed",
                                            !.confirmed_at = Stamped]
            /\ OthersUnchanged(a)

\* C6: confirm_appointment succeeds, setting status confirmed and stamping
\* confirmed_at on that appointment alone, exactly when the appointment is
\* pending and the actor is its doctor; another actor gets the authorization
\* error, the doctor of a non-pending appointment gets the state error, and a
\* request that fails changes nothing.
C6_ConfirmOnlyPendingByDoctor == []C6_ConfirmResponse /\ [][C6_ConfirmEffect]_vars

\* a confirmed appointment, and a terminal one that cannot be confirmed
C6_Witness ==
    /\ \E i \in DOMAIN appts :
           appts[i].status = "confirmed" /\ appts[i].confirmed_at # NULL
    /\ \E j \in DOMAIN appts : appts[j].status \in Terminal

\* the responses of mark_completed and mark_no_show, by status and actor
C7_MarkResponse ==
    \A a \in DOMAIN appts, u \in Users :
        /\ (mark_completed_response(a, u) = "200")
              <=> (appts[a].status = "confirmed" /\ u = OwnerDoctorUser(a))
        /\ (mark_no_show_response(a, u) = "200")
              <=> (appts[a].status = "confirmed" /\ u = OwnerDoctorUser(a))

\* a step of mark_completed or mark_no_show
C7_MarkEffect ==
    \A a \in DOMAIN appts, u \in Users :
        LET ok == appts[a].status = "confirmed" /\ u = OwnerDoctorUser(a)
        IN  /\ mark_completed(a, u) =>
                /\ ok
                /\ appts'[a] = [appts[a] EXCEPT !.status = "completed"]
                /\ OthersUnchanged(a)
                /\ total_consultations' =
                      [total_consultations EXCEPT ![appts[a].doctor_id] = @ + 1]
            /\ mark_no_show(a, u) =>
                /\ ok
                /\ appts'[a] = [appts[a] EXCEPT !.status = "no_show"]
                /\ OthersUnchanged(a)
                /\ total_consultations' = total_consultations

\* C7: mark_completed and mark_no_show succeed only for a confirmed appointment
\* and its own doctor, moving it to completed (the doctor's consultation counter
\* one higher) or to no_show (counter as it was); otherwise they fail and leave
\* the appointments and the consultation counters unchanged.
C7_MarkOnlyConfirmed == []C7_MarkResponse /\ [][C7_MarkEffect]_vars

\* a completed and a no-show appointment, the completion counted
C7_Witness ==
    /\ \E i \in DOMAIN appts :
           /\ appts[i].status = "completed"
           /\ total_consultations[appts[i].doctor_id] >= 1
    /\ \E j \in DOMAIN appts : appts[j].status = "no_show"

\* the response of cancel_appointment to the patient and to the doctor of an
\* active appointment
C8_CancelResponse ==
    \A a \in DOMAIN appts :
        appts[a].status \in ActiveStatuses =>
            /\ (cancel_appointment_response(a, OwnerPatientUser(a), FALSE) = "200")
                  <=> (now + 24 * 60 < appts[a].appointment_date)
            /\ cancel_appointment_response(a, OwnerDoctorUser(a), TRUE) = "200"

\* a step of cancel_appointment on an active appointment
C8_CancelEffect ==
    \A a \in DOMAIN appts, u \in Users, is_doctor \in BOOLEAN :
        ( /\ appts[a].status \in ActiveStatuses
          /\ u = (IF is_doctor THEN OwnerDoctorUser(a) ELSE OwnerPatientUser(a))
          /\ cancel_appointment(a, u, is_doctor) )
        => /\ is_doctor \/ now + 24 * 60 < appts[a].appointment_date
           /\ appts'[a].status = "cancelled"
           /\ appts'[a].cancelled_by = (IF is_doctor THEN "doctor" ELSE "patient")
           /\ appts'[a].cancelled_at # NULL
           /\ OthersUnchanged(a)

\* C8: for a pending or confirmed appointment, its patient's cancel succeeds iff
\* now + 24 h < start (otherwise nothing changes), its doctor's cancel succeeds
\* at any time; a successful cancel sets status cancelled and records in
\* cancelled_by whether the patient or the doctor cancelled.
C8_CancelRule == []C8_CancelResponse /\ [][C8_CancelEffect]_vars

\* one appointment cancelled by its patient, another by its doctor less than
\* 24 h ahead
C8_Witness ==
    /\ \E i \in DOMAIN appts :
           appts[i].status = "cancelled" /\ appts[i].cancelled_by = "patient"
    /\ \E j \in DOMAIN appts :
           /\ appts[j].status = "cancelled" /\ appts[j].cancelled_by = "doctor"
           /\ now + 24 * 60 >= appts[j].appointment_date

\* C9 (as claimed): for every appointment, is_cancellable and is_modifiable
\* are true iff now + 24 h < appointment start.
C9_CancellableIffEarly ==
    \A i \in DOMAIN appts :
        /\ is_cancellable(appts[i]) <=> (now + 24 * 60 < appts[i].appointment_date)
        /\ is_modifiable(appts[i]) <=> (now + 24 * 60 < appts[i].appointment_date)

\* is_cancellable and is_modifiable, by status and start time
C9_CancellableState ==
    \A i \in DOMAIN appts :
        /\ appts[i].status \notin Terminal =>
              (is_cancellable(appts[i])
                  <=> (now + 24 * 60 < appts[i].appointment_date))
        /\ appts[i].status \in Terminal => ~is_cancellable(appts[i])
        /\ is_modifiable(appts[i]) <=> is_cancellable(appts[i])

\* once false for an appointment, they stay false as long as the appointment
\* keeps its start time
C9_CancellableStep ==
    \A i \in DOMAIN appts :
        ( /\ ~is_cancellable(appts[i])
          /\ appts'[i].appointment_date = appts[i].appointment_date )
        => ~is_cancellable(appts[i])' /\ ~is_modifiable(appts[i])'

\* C9 (amended): for every appointment that is not cancelled, completed or
\* no_show, is_cancellable and is_modifiable are true iff now + 24 h < start
\* (false at now + 24 h = start and later); for those three statuses they are
\* false whatever the start time.
C9_CancellableAmended == []C9_CancellableState /\ [][C9_CancellableStep]_vars

\* an active appointment that starts exactly at now + 24 h
C9_Witness ==
    \E i \in DOMAIN appts :
        /\ appts[i].status \in ActiveStatuses
        /\ appts[i].appointment_date = now + 24 * 60
        /\ ~is_cancellable(appts[i])

\* the response of reschedule_appointment at most 24 h ahead, by requester
C10_LateResponse ==
    \A a \in DOMAIN appts, p \in PatientIds, t \in Dates :
        now + 24 * 60 >= appts[a].appointment_date
            => reschedule_appointment_response(a, p, t) =
                  (IF p = appts[a].patient_id THEN "400 24h rule"
                                              ELSE "403 not authorized")

\* reschedule_appointment writes more than 24 h ahead only
C10_LateEffect ==
    \A a \in DOMAIN appts, p \in PatientIds, t \in Dates :
        reschedule_appointment(a, p, t)
            => now + 24 * 60 < appts[a].appointment_date

\* C10: whenever now + 24 h >= the appointment's current start, the reschedule
\* its patient requests is rejected with the 24 h policy error whatever the new
\* time (a patient who does not own the appointment is refused as not
\* authorized), and no reschedule changes the appointment's date, status or
\* confirmed_at.
C10_LateRescheduleRejected == []C10_LateResponse /\ [][C10_LateEffect]_vars

\* an active appointment whose start is at most 24 h ahead
C10_Witness ==
    \E i \in DOMAIN appts :
        /\ appts[i].status \in ActiveStatuses
        /\ now + 24 * 60 >= appts[i].appointment_date

C12_CollisionIsRetried ==
    /\ \A i, j \in DOMAIN appts :
           i # j => appts[i].confirmation_code # appts[j].confirmation_code
    /\ \A d \in DoctorIds, t \in Dates, ct \in ConsultationTypes, code \in Draws :
           ( /\ ~code_is_unique(code)
             /\ create_appointment_doctor_checks(d, ct) = "pass"
             /\ check_slot_availability(d, t, 0) )
           => create_appointment_response(d, t, ct, code) = "201"

\* the doctor's price for a consultation type
CurrentFee(doctor_id, consultation_type) ==
    IF consultation_type = "online" THEN doctor_fees[doctor_id].online
                                    ELSE doctor_fees[doctor_id].presentiel

\* a step keeps the price of every stored appointment and gives a new one the
\* doctor's price of that moment
C13_FeeStep ==
    /\ \A i \in DOMAIN appts :
          /\ i \in DOMAIN appts'
          /\ appts'[i].consultation_fee = appts[i].consultation_fee
          /\ appts'[i].currency = appts[i].currency
    /\ \A j \in DOMAIN appts' \ DOMAIN appts :
          /\ appts'[j].consultation_fee =
                 CurrentFee(appts'[j].doctor_id, appts'[j].consultation_type)
          /\ appts'[j].currency = Doctor(appts'[j].doctor_id).currency

\* C13: a booking stores the doctor's price, at that moment, for the requested
\* consultation type and the doctor's currency; afterwards no request changes a
\* stored appointment's consultation_fee or currency: not confirm, cancel,
\* reschedule, complete or mark-no-show, and not a change of the doctor's prices.
C13_FeeSnapshot == [][C13_FeeStep]_vars

\* an appointment confirmed at the price of its booking, the doctor's price
\* for its type being another one now
C13_Witness ==
    \E i \in DOMAIN appts :
        /\ appts[i].status = "confirmed"
        /\ appts[i].consultation_fee
               # CurrentFee(appts[i].doctor_id, appts[i].consultation_type)
        /\ appts[i].consultation_fee > 0

\* C14: can_join_video is true iff the appointment is online, confirmed and
\* start - 15 min <= now <= start + 1 h, both ends included; for a confirmed
\* online appointment at 10:00 it is true at 09:46 and false at 11:01.
C14_VideoWindow ==
    \A i \in DOMAIN appts :
        /\ can_join_video(appts[i])
              <=> ( /\ appts[i].consultation_type = "online"
                    /\ appts[i].status = "confirmed"
                    /\ appts[i].appointment_date - 15 <= now
                    /\ now <= appts[i].appointment_date + 60 )
        /\ ( /\ appts[i].consultation_type = "online"
             /\ appts[i].status = "confirmed"
             /\ appts[i].appointment_date = MinutesPerDay + 10 * 60 )
           => /\ now = MinutesPerDay + 9 * 60 + 46 => can_join_video(appts[i])
              /\ now = MinutesPerDay + 11 * 60 + 1 => ~can_join_video(appts[i])

\* a confirmed online appointment, joinable exactly one hour after its start
C14_Witness ==
    \E i \in DOMAIN appts :
        /\ appts[i].consultation_type = "online"
        /\ appts[i].status = "confirmed"
        /\ now = appts[i].appointment_date + 60
        /\ can_join_video(appts[i])

\* C15 (as claimed): whatever create_availability_slot, update_availability_slot,
\* delete_availability_slot and set_working_hours requests were served, no two
\* active weekly slots of the same doctor and day of week have overlapping
\* [start, end) intervals.
C15_NoOverlappingSlots ==
    \A i, j \in DOMAIN slots :
        ( /\ i # j
          /\ slots[i].doctor_id = slots[j].doctor_id
          /\ slots[i].day_of_week = slots[j].day_of_week
          /\ slots[i].is_active /\ slots[j].is_active )
        => ~( /\ slots[i].start_time < slots[j].end_time
              /\ slots[j].start_time < slots[i].end_time )

\* the active slots of the doctor and day that the request's [start, end) overlaps
OverlappedSlots(doctor_id, data) ==
    {i \in DOMAIN slots :
        /\ slots[i].doctor_id = doctor_id
        /\ slots[i].day_of_week = data.day_of_week
        /\ slots[i].is_active
        /\ data.start_time < slots[i].end_time
        /\ data.end_time > slots[i].start_time}

\* the response of create_availability_slot to every valid request
C16_CreateSlotResponse ==
    \A o \in SlotOwners :
        \A data \in SlotRequests(o[2], NoBreak) :
            (create_availability_slot_response(o[1], data) = "409 overlaps")
                <=> (OverlappedSlots(o[1], data) # {})

\* a step of create_availability_slot: no active slot is overlapped, one row is
\* added, the others stay
C16_CreateSlotEffect ==
    \A o \in SlotOwners :
        \A data \in SlotRequests(o[2], NoBreak) :
            ( /\ Cardinality(DOMAIN slots) < MaxSlots
              /\ create_availability_slot(o[1], data) ) =>
                /\ OverlappedSlots(o[1], data) = {}
                /\ Cardinality(DOMAIN slots') = Cardinality(DOMAIN slots) + 1
                /\ \A i \in DOMAIN slots : i \in DOMAIN slots' /\ slots'[i] = slots[i]
                /\ \A i \in DOMAIN slots' \ DOMAIN slots :
                      /\ slots'[i].doctor_id = o[1]
                      /\ slots'[i].start_time = data.start_time
                      /\ slots'[i].end_time = data.end_time
                      /\ slots'[i].is_active

\* C16: create_availability_slot fails with the conflict error, storing nothing,
\* iff new.start < existing.end and new.end > existing.start for some active
\* slot of the same doctor and day; a slot that only touches an existing one, or
\* overlaps inactive slots only, is accepted and stored.
C16_CreateSlotConflict == []C16_CreateSlotResponse /\ [][C16_CreateSlotEffect]_vars

\* a request that is accepted although its interval starts where an active slot
\* of the doctor and day ends and overlaps an inactive slot of that doctor and day
C16_Witness ==
    \E i, k \in DOMAIN slots :
        /\ slots[i].is_active /\ ~slots[k].is_active
        /\ slots[k].doctor_id = slots[i].doctor_id
        /\ slots[k].day_of_week = slots[i].day_of_week
        /\ \E data \in SlotRequests(slots[i].day_of_week, NoBreak) :
              /\ data.start_time = slots[i].end_time
              /\ data.start_time < slots[k].end_time
              /\ data.end_time > slots[k].start_time
              /\ create_availability_slot_response(slots[i].doctor_id, data) = "200"

\* C17 (as claimed): every stored weekly slot has end > start and, when it has a
\* break window, start <= break_start < break_end <= end, whatever valid
\* create_availability_slot, update_availability_slot and set_working_hours
\* requests were served.
C17_SlotsWellFormed ==
    \A i \in DOMAIN slots :
        /\ slots[i].end_time > slots[i].start_time
        /\ (slots[i].break_start # NULL /\ slots[i].break_end # NULL)
              => /\ slots[i].start_time <= slots[i].break_start[1]
                 /\ slots[i].break_start[1] < slots[i].break_end[1]
                 /\ slots[i].break_end[1] <= slots[i].end_time

\* (end - start) minus the span of the break, if the slot has one
SpanWithoutBreak(slot) ==
    (slot.end_time - slot.start_time)
      - (IF slot.break_start # NULL /\ slot.break_end # NULL
         THEN slot.break_end[1] - slot.break_start[1] ELSE 0)

\* C18 (as claimed): get_weekly_schedule returns seven day entries, day_of_week
\* 0..6 in order; a day without active slot is no working day, has no slots and
\* zero totals; a slot's available minutes are (end - start) minus the break
\* span and its capacity is floor(available minutes / slot duration), the day's
\* totals being their sums; 09:00-17:00 with 30-minute slots and a break
\* 12:00-13:00 gives 420 minutes and 14 slots.
C18_WeeklySchedule ==
    LET schedule == get_weekly_schedule(WeekDoctor)
        active(day) == {i \in DOMAIN slots :
                           /\ slots[i].doctor_id = WeekDoctor
                           /\ slots[i].is_active
                           /\ slots[i].day_of_week = day}
    IN  /\ DOMAIN schedule = 1..7
        /\ \A k \in 1..7 :
              /\ schedule[k].day_of_week = k - 1
              /\ schedule[k].is_working_day = (active(k - 1) # {})
              /\ {schedule[k].slots[n].id : n \in DOMAIN schedule[k].slots}
                    = active(k - 1)
              /\ Len(schedule[k].slots) = Cardinality(active(k - 1))
              /\ active(k - 1) = {}
                    => /\ schedule[k].total_minutes = 0
                       /\ schedule[k].total_slots = 0
              /\ \A n \in DOMAIN schedule[k].slots :
                    LET slot == slots[schedule[k].slots[n].id]
                    IN  /\ schedule[k].slots[n].slot_count =
                               SpanWithoutBreak(slot) \div slot.slot_duration_minutes
                        /\ ( /\ slot.start_time = 9 * 60 /\ slot.end_time = 17 * 60
                             /\ slot.slot_duration_minutes = 30
                             /\ slot.break_start = Some(12 * 60)
                             /\ slot.break_end = Some(13 * 60) )
                           => /\ total_minutes(slot) = 420
                              /\ schedule[k].slots[n].slot_count = 14
              /\ Len(schedule[k].slots) = 1
                    => schedule[k].total_minutes
                          = SpanWithoutBreak(slots[schedule[k].slots[1].id])

\* C19: in every answer of get_computed_availability, a sub-slot is booked
\* exactly when some pending or confirmed appointment of the doctor fetched
\* for the range has [start, start + duration_minutes) overlapping the
\* sub-slot's [start, end), touching intervals not overlapping.
C19_BookedIffOverlap ==
    \A d \in ComputedDoctors, start_date \in ComputedDates, end_date \in ComputedDates :
        \A by_date \in ExceptionsByDate(d, start_date, end_date) :
            LET days == get_computed_availability(d, start_date, end_date, by_date)
            IN  \A k \in DOMAIN days : \A n \in DOMAIN days[k].slots :
                    LET sub == days[k].slots[n]
                        sub_start == days[k].date * MinutesPerDay + parse_time(sub.start_time)
                        sub_end == days[k].date * MinutesPerDay + parse_time(sub.end_time)
                    IN  sub.is_booked <=>
                          \E i \in DOMAIN appts :
                              /\ appts[i].doctor_id = d
                              /\ appts[i].status \in {"pending", "confirmed"}
                              /\ DateOf(appts[i].appointment_date) >= start_date
                              /\ DateOf(appts[i].appointment_date) <= end_date
                              /\ appts[i].appointment_date < sub_end
                              /\ sub_start < appts[i].appointment_date
                                                + appts[i].duration_minutes

\* the answer for the day of the appointments has a booked sub-slot and a free
\* one that ends where an active appointment starts, beside a cancelled one
C19_Witness ==
    /\ \E i \in DOMAIN appts : appts[i].status = "cancelled"
    /\ \E by_date \in ExceptionsByDate("d1", 1, 1) :
          LET day == get_computed_availability("d1", 1, 1, by_date)[1]
          IN  /\ \E n \in DOMAIN day.slots : day.slots[n].is_booked
              /\ \E n \in DOMAIN day.slots :
                    /\ ~day.slots[n].is_booked
                    /\ \E i \in DOMAIN appts :
                          /\ appts[i].doctor_id = "d1"
                          /\ appts[i].status \in {"pending", "confirmed"}
                          /\ appts[i].appointment_date
                                = MinutesPerDay + parse_time(day.slots[n].end_time)

\* C20 (as claimed): in every answer of get_computed_availability, a sub-slot
\* that starts at or before the instant of the request is not available,
\* booked or not.
C20_PastNotAvailable ==
    \A d \in ComputedDoctors, start_date \in ComputedDates, end_date \in ComputedDates :
        \A by_date \in ExceptionsByDate(d, start_date, end_date) :
            LET days == get_computed_availability(d, start_date, end_date, by_date)
            IN  \A k \in DOMAIN days : \A n \in DOMAIN days[k].slots :
                    (days[k].date * MinutesPerDay
                        + parse_time(days[k].slots[n].start_time) <= now)
                      => ~days[k].slots[n].is_available

\* C21 (as claimed): a day of get_computed_availability is blocked exactly when
\* an active full-day absence covers its date or a full-day blocking exception
\* exists for it, and a blocked day has no slots and is no working day.
C21_BlockedIffCovered ==
    \A start_date \in DayDates, end_date \in DayDates :
        \A by_date \in ExceptionsByDate(DayDoctor, start_date, end_date) :
            LET days == get_computed_availability(DayDoctor, start_date, end_date, by_date)
            IN  \A k \in DOMAIN days :
                    /\ days[k].is_blocked <=>
                          \/ FullDayAbsence(DayDoctor, days[k].date)
                          \/ FullDayBlockingException(DayDoctor, days[k].date)
                    /\ days[k].is_blocked
                          => days[k].slots = <<>> /\ ~days[k].is_working_day

\* C22 (as claimed): when an active full-day absence and a full-day blocking
\* exception both cover a date, the block_reason of the day is the absence's.
C22_AbsenceReasonWins ==
    \A start_date \in DayDates, end_date \in DayDates :
        \A by_date \in ExceptionsByDate(DayDoctor, start_date, end_date) :
            LET days == get_computed_availability(DayDoctor, start_date, end_date, by_date)
            IN  \A k \in DOMAIN days :
                    ( /\ FullDayAbsence(DayDoctor, days[k].date)
                      /\ FullDayBlockingException(DayDoctor, days[k].date) )
                      => /\ days[k].block_reason # NULL
                         /\ days[k].block_reason[1][1] = "absence"

\* C23 (as claimed): with several exceptions on a date, the day is blocked as
\* soon as one of them is a full-day blocking exception, whatever the others
\* are and in whatever order the rows are returned.
C23_AnyExceptionBlocks ==
    \A start_date \in DayDates, end_date \in DayDates :
        \A by_date \in ExceptionsByDate(DayDoctor, start_date, end_date) :
            LET days == get_computed_availability(DayDoctor, start_date, end_date, by_date)
            IN  \A k \in DOMAIN days :
                    FullDayBlockingException(DayDoctor, days[k].date) => days[k].is_blocked

\* the sub-slot of a day's answer, as minutes of the day
SubSlotStart(sub) == parse_time(sub.start_time)

SubSlotEnd(sub) == parse_time(sub.end_time)

\* the sub-slots emitted on date d for slot k of the day's schedule
EmittedFor(d, k) ==
    LET slot_info == get_weekly_schedule(BreakDoctor)[weekday(d) + 1].slots[k]
    IN  ComputedTimeSlots(slot_info,
                          d * MinutesPerDay + parse_time(slot_info.start_time),
                          d * MinutesPerDay + parse_time(slot_info.end_time), {})

\* C24: for a weekly slot with a break window, no sub-slot emitted by
\* get_computed_availability has [start, end) intersecting
\* [break_start, break_end) under the half-open rule, and none starts inside
\* the break window.
C24_NoSubSlotInBreak ==
    \A d \in BreakDates :
        LET day_schedule == get_weekly_schedule(BreakDoctor)[weekday(d) + 1]
            day == get_computed_availability(BreakDoctor, d, d, <<>>)[1]
        IN  /\ \A k \in DOMAIN day_schedule.slots :
                  LET slot_info == day_schedule.slots[k]
                      emitted == EmittedFor(d, k)
                  IN  (slot_info.break_start # NULL /\ slot_info.break_end # NULL)
                        => \A n \in DOMAIN emitted :
                              LET break_start == parse_time(slot_info.break_start[1])
                                  break_end == parse_time(slot_info.break_end[1])
                              IN  /\ ~ /\ SubSlotStart(emitted[n]) < break_end
                                       /\ SubSlotEnd(emitted[n]) > break_start
                                  /\ ~ /\ break_start <= SubSlotStart(emitted[n])
                                       /\ SubSlotStart(emitted[n]) < break_end
            /\ Len(day_schedule.slots) = 1 => day.slots = EmittedFor(d, 1)

\* 09:00-11:00 in half hours with the break 09:45-10:15: the two sub-slots that
\* meet the break are skipped, the first and the last are emitted
C24_Witness ==
    \E d \in BreakDates :
        LET day_schedule == get_weekly_schedule(BreakDoctor)[weekday(d) + 1]
            day == get_computed_availability(BreakDoctor, d, d, <<>>)[1]
        IN  /\ Len(day_schedule.slots) = 1
            /\ day_schedule.slots[1].slot_duration_minutes = 30
            /\ day_schedule.slots[1].break_start = Some(format_time(9 * 60 + 45))
            /\ day_schedule.slots[1].break_end = Some(format_time(10 * 60 + 15))
            /\ Len(day.slots) = 2
            /\ SubSlotStart(day.slots[1]) = 9 * 60
            /\ SubSlotStart(day.slots[2]) = 10 * 60 + 30

\* the dates and windows conflicts are asked for: the full day, 10:00-10:30,
\* 10:15-10:45 and 23:00-23:59
ScanDates == {1, 2}

ScanWindows ==
    {<<NULL, NULL>>, <<Some(10 * 60), Some(10 * 60 + 30)>>,
     <<Some(10 * 60 + 15), Some(10 * 60 + 45)>>, <<Some(23 * 60), Some(23 * 60 + 59)>>}

\* the appointments the claim puts in the conflict set
ClaimedConflicts(doctor_id, start_date, end_date, start_time, end_time) ==
    {i \in DOMAIN appts :
        /\ appts[i].doctor_id = doctor_id
        /\ appts[i].status \in {"pending", "confirmed"}
        /\ DateOf(appts[i].appointment_date) >= start_date
        /\ DateOf(appts[i].appointment_date) <= end_date
        /\ (start_time # NULL /\ end_time # NULL)
              => LET day == DateOf(appts[i].appointment_date) * MinutesPerDay
                 IN  /\ appts[i].appointment_date < day + end_time[1]
                     /\ appts[i].appointment_date + appts[i].duration_minutes
                           > day + start_time[1]}

\* C25 (as claimed): check_conflicts returns exactly the doctor's pending and
\* confirmed appointments that start in [start_date 00:00, end_date 23:59:59]
\* and, for a partial-day window, whose [start, start + duration) overlaps
\* [start_time, end_time); affected_count is the size of that set and
\* has_conflicts says it is not empty.
C25_ConflictSet ==
    \A d \in {"d1", "d2"}, sd \in ScanDates, ed \in ScanDates, w \in ScanWindows :
        LET response == ConflictCheckResponse(d, sd, ed, w[1], w[2])
            claimed == ClaimedConflicts(d, sd, ed, w[1], w[2])
        IN  /\ response.affected_appointments = claimed
            /\ response.affected_count = Cardinality(claimed)
            /\ response.has_conflicts = (claimed # {})

\* a step that appends an absence stores it active, with the count of
\* check_conflicts for its window, notified exactly if asked to and in conflict
C26_CreateStep ==
    Len(absences') = Len(absences) + 1
      => LET absence == absences'[Len(absences')]
             conflicts == ConflictCheckResponse(absence.doctor_id,
                              absence.start_date, absence.end_date,
                              absence.start_time, absence.end_time)
         IN  /\ absence.is_active
             /\ absence.affected_appointments_count = conflicts.affected_count
             /\ (absence.patients_notified_at # NULL)
                   <=> (absence.notify_patients /\ conflicts.affected_count >= 1)
             /\ \A i \in DOMAIN absences : absences'[i] = absences[i]

\* C26: create_absence stores the absence as active, with
\* affected_appointments_count the conflict count check_conflicts gives for its
\* window when it is created, and with patients_notified_at set exactly when
\* notify_patients is true and there is at least one conflict.
C26_CreateStoresCount == [][C26_CreateStep]_vars

\* one absence was stored notified, with two conflicts
C26_Witness ==
    \E i \in DOMAIN absences :
        /\ absences[i].notify_patients
        /\ absences[i].patients_notified_at # NULL
        /\ absences[i].affected_appointments_count = 2
        /\ absences[i].is_active

\* what a served update_absence request leaves in the row
C27_UpdateStep ==
    \A i \in AbsenceIds, data \in AbsenceUpdates :
        update_absence(AbsenceDoctor, i, data)
          => /\ ( \/ data.start_date # NULL \/ data.end_date # NULL
                  \/ data.start_time # NULL \/ data.end_time # NULL )
                  => absences'[i].affected_appointments_count
                       = Cardinality(check_conflicts(AbsenceDoctor,
                             absences'[i].start_date, absences'[i].end_date,
                             absences'[i].start_time, absences'[i].end_time))
             /\ ( /\ data.is_active = Some(FALSE)
                  /\ data.start_date = NULL /\ data.end_date = NULL
                  /\ data.start_time = NULL /\ data.end_time = NULL )
                  => /\ absences'[i].cancelled_at = Stamped
                     /\ ~absences'[i].is_active
                     /\ absences'[i].affected_appointments_count
                           = absences[i].affected_appointments_count

\* C27: update_absence scans the conflicts again and stores the count for the
\* new window whenever the request sends start_date, end_date, start_time or
\* end_time; a request that only sets is_active=false stamps cancelled_at and
\* leaves affected_appointments_count as it was.
C27_UpdateRescans == [][C27_UpdateStep]_vars

\* an absence 10:00-10:30 in conflict with the 10:00 appointment was moved to
\* start at 10:30 and conflicts with nothing any more
C27_Witness ==
    /\ \E a \in DOMAIN appts :
          /\ appts[a].doctor_id = AbsenceDoctor
          /\ appts[a].status = "confirmed"
          /\ appts[a].appointment_date = MinutesPerDay + 10 * 60
    /\ \E i \in DOMAIN absences :
          /\ absences[i].start_time = Some(10 * 60 + 30)
          /\ absences[i].end_time = Some(10 * 60 + 30)
          /\ absences[i].affected_appointments_count = 0

\* the appointments of the doctor that start on the date, by status
OnDate(doctor_id, d, statuses) ==
    {a \in DOMAIN appts :
        /\ appts[a].doctor_id = doctor_id
        /\ DateOf(appts[a].appointment_date) = d
        /\ appts[a].status \in statuses}

\* a full-day scan of a date holding two confirmed appointments (and no
\* pending one) reports two conflicts
C28_TwoConflicts ==
    \A d \in ScanDates :
        ( /\ Cardinality(OnDate(AbsenceDoctor, d, {"confirmed"})) = 2
          /\ OnDate(AbsenceDoctor, d, {"pending"}) = {} )
          => LET conflicts == ConflictCheckResponse(AbsenceDoctor, d, d, NULL, NULL)
             IN  conflicts.affected_count = 2 /\ conflicts.has_conflicts

\* a served delete_absence changes is_active and cancelled_at of its row only
C28_DeleteStep ==
    \A i \in AbsenceIds :
        delete_absence(AbsenceDoctor, i)
          => /\ Len(absences') = Len(absences)
             /\ absences' = [absences EXCEPT ![i].is_active = FALSE,
                                              ![i].cancelled_at = Stamped]
             /\ absences'[i].affected_appointments_count
                   = absences[i].affected_appointments_count

\* C28: a full-day absence over a date with two confirmed appointments is
\* created with affected_count = 2 and has_conflicts = true, and
\* delete_absence then only sets is_active=false and cancelled_at: the absence
\* is still stored and keeps the count recorded when it was created.
C28_SoftDeleteKeepsCount == []C28_TwoConflicts /\ [][C28_DeleteStep]_vars

\* the full-day absence over the two confirmed appointments, cancelled
C28_Witness ==
    /\ Cardinality(OnDate(AbsenceDoctor, 1, {"confirmed"})) = 2
    /\ OnDate(AbsenceDoctor, 1, {"pending"}) = {}
    /\ \E i \in DOMAIN absences :
          /\ is_full_day(absences[i])
          /\ absences[i].start_date = 1 /\ absences[i].end_date = 1
          /\ ~absences[i].is_active
          /\ absences[i].cancelled_at = Stamped
          /\ absences[i].affected_appointments_count = 2

\* C29 (as claimed): every stored absence has end_date >= start_date and, when
\* it has both a start_time and an end_time, end_time > start_time, whatever
\* valid create_absence and update_absence requests were served.
C29_AbsencesWellFormed ==
    \A i \in DOMAIN absences :
        /\ absences[i].end_date >= absences[i].start_date
        /\ (absences[i].start_time # NULL /\ absences[i].end_time # NULL)
              => absences[i].end_time[1] > absences[i].start_time[1]

\* the instants is_date_blocked is asked about
CheckDates == {0, 1, 2, 3}

CheckTimes == {NULL, Some(10 * 60 - 1), Some(10 * 60), Some(10 * 60 + 29),
               Some(10 * 60 + 30)}

\* C30: is_date_blocked(doctor, date, time) is true exactly when some active
\* absence of the doctor whose date range contains the date is full-day, or a
\* time is given and such an absence has a window with
\* start_time <= time < end_time; inactive absences never block.
C30_DateBlocked ==
    \A d \in DoctorIds, check_date \in CheckDates, check_time \in CheckTimes :
        is_date_blocked(d, check_date, check_time)
          <=> \E i \in DOMAIN absences :
                  /\ absences[i].doctor_id = d
                  /\ absences[i].is_active
                  /\ absences[i].start_date <= check_date
                  /\ check_date <= absences[i].end_date
                  /\ \/ absences[i].start_time = NULL /\ absences[i].end_time = NULL
                     \/ /\ check_time # NULL
                        /\ absences[i].start_time # NULL /\ absences[i].end_time # NULL
                        /\ absences[i].start_time[1] <= check_time[1]
                        /\ check_time[1] < absences[i].end_time[1]

\* an active absence 10:00-10:30 blocks 10:00 and 10:29 of its day, not 10:30,
\* not the day without a time, and not the day after
C30_Witness ==
    /\ \E i \in DOMAIN absences :
          /\ absences[i].is_active
          /\ absences[i].start_time = Some(10 * 60)
          /\ absences[i].end_time = Some(10 * 60 + 30)
    /\ is_date_blocked(AbsenceDoctor, 1, Some(10 * 60))
    /\ is_date_blocked(AbsenceDoctor, 1, Some(10 * 60 + 29))
    /\ ~is_date_blocked(AbsenceDoctor, 1, Some(10 * 60 + 30))
    /\ ~is_date_blocked(AbsenceDoctor, 1, NULL)

\* the distances in minutes between a candidate start and a stored start
StartOffsets == {0 - 31, 0 - 30, 0 - 29, 0 - 1, 0, 1, 29, 30, 31}

\* C31: check_slot_availability refuses a candidate start N exactly when some
\* pending or confirmed appointment of the doctor starts at an E with
\* E < N + 30 min and E + 30 min > N (the half-open overlap of two 30-minute
\* windows); slots back to back with an appointment are free.
C31_ThreeBranchesAreOverlap ==
    \A k \in DOMAIN appts, o \in StartOffsets :
        LET d == appts[k].doctor_id
            N == appts[k].appointment_date + o
        IN  /\ check_slot_availability(d, N, 0)
                  <=> ~ \E i \in DOMAIN appts :
                          /\ appts[i].doctor_id = d
                          /\ appts[i].status \in {"pending", "confirmed"}
                          /\ appts[i].appointment_date < N + 30
                          /\ appts[i].appointment_date + 30 > N
            /\ ( /\ o \in {0 - 30, 30}
                 /\ \A j \in DOMAIN appts : j # k => appts[j].doctor_id # d )
                  => check_slot_availability(d, N, 0)

\* around the only active appointment of a doctor: free 30 minutes before and
\* after, taken 29 minutes before and after
C31_Witness ==
    \E i \in DOMAIN appts :
        LET d == appts[i].doctor_id
            E == appts[i].appointment_date
        IN  /\ appts[i].status \in {"pending", "confirmed"}
            /\ \A j \in DOMAIN appts : j # i => appts[j].doctor_id # d
            /\ check_slot_availability(d, E - 30, 0)
            /\ check_slot_availability(d, E + 30, 0)
            /\ ~check_slot_availability(d, E - 29, 0)
            /\ ~check_slot_availability(d, E + 29, 0)

\* another pending or confirmed appointment of the doctor of appointment a
\* overlaps the window [t, t + 30 min)
OtherOverlaps(a, t) ==
    \E j \in DOMAIN appts :
        /\ j # a
        /\ appts[j].doctor_id = appts[a].doctor_id
        /\ appts[j].status \in {"pending", "confirmed"}
        /\ appts[j].appointment_date < t + 30
        /\ t < appts[j].appointment_date + 30

\* the answer to the patient of a modifiable appointment, for the new times
\* around its current start
C32_RescheduleResponse ==
    \A a \in DOMAIN appts, o \in StartOffsets :
        LET t == appts[a].appointment_date + o
            r == reschedule_appointment_response(a, appts[a].patient_id, t)
        IN  is_modifiable(appts[a])
              => /\ OtherOverlaps(a, t) => r = "409 slot not available"
                 /\ ~OtherOverlaps(a, t) => r = "200"

\* an appointment is moved only to a time no other active appointment of its
\* doctor overlaps
C32_RescheduleEffect ==
    \A a \in DOMAIN appts, p \in PatientIds, t \in Dates :
        reschedule_appointment(a, p, t) => ~OtherOverlaps(a, t)

\* C32: the overlap check of reschedule_appointment leaves out the appointment
\* being moved: a new time that overlaps only its own current slot is
\* accepted, and one that overlaps another pending or confirmed appointment of
\* the doctor is refused with a conflict, the appointment staying as it is.
C32_RescheduleIgnoresItself == []C32_RescheduleResponse /\ [][C32_RescheduleEffect]_vars

\* an appointment that may move a quarter of an hour later, inside its own
\* slot, and may not move one minute earlier, into the appointment before it
C32_Witness ==
    \E a \in DOMAIN appts :
        LET p == appts[a].patient_id
            E == appts[a].appointment_date
        IN  /\ is_modifiable(appts[a])
            /\ reschedule_appointment_response(a, p, E + 15) = "200"
            /\ reschedule_appointment_response(a, p, E - 1) = "409 slot not available"

\* C33 (as claimed): when a create_appointment and a reschedule_appointment of
\* another appointment of the same doctor aim at overlapping windows and their
\* check and write steps interleave, at most one of them succeeds, and no two
\* pending or confirmed appointments of a doctor overlap afterwards.
C33_CreateAndRescheduleRace ==
    /\ ( /\ calls["p1"].pc = "done" /\ calls["p2"].pc = "done"
         /\ calls["p1"].doctor_id = calls["p2"].doctor_id
         /\ calls["p1"].appointment_date < calls["p2"].appointment_date + 30
         /\ calls["p2"].appointment_date < calls["p1"].appointment_date + 30 )
         => ~(calls["p1"].response = "201" /\ calls["p2"].response = "200")
    /\ \A i \in DOMAIN appts : \A j \in DOMAIN appts :
          ( /\ i < j
            /\ appts[i].doctor_id = appts[j].doctor_id
            /\ appts[i].status \in {"pending", "confirmed"}
            /\ appts[j].status \in {"pending", "confirmed"} )
            => \/ appts[i].appointment_date + 30 <= appts[j].appointment_date
               \/ appts[j].appointment_date + 30 <= appts[i].appointment_date

CompletedOf(d) ==
    {i \in DOMAIN appts : appts[i].doctor_id = d /\ appts[i].status = "completed"}

\* C34 (as claimed): in every state reachable under any interleaving of
\* mark_completed, cancel_appointment, confirm_appointment and
\* reschedule_appointment, two concurrent mark_completed of one doctor
\* included, a doctor's total_consultations equals its initial value, zero in
\* the initial states, plus the number of the doctor's completed appointments.
C34_TallyMatchesCompleted ==
    \A d \in DoctorIds : total_consultations[d] = Cardinality(CompletedOf(d))

UsedStatuses == {"pending", "confirmed", "cancelled", "completed", "no_show"}

C35_StatusesInUse ==
    \A i \in DOMAIN appts :
        /\ appts[i].status \in UsedStatuses
        /\ appts[i].rescheduled_from_id = NULL
        /\ appts[i].rescheduled_to_id = NULL

\* a step that moves an appointment keeps the row and leaves it pending
C35_MovedInPlace ==
    /\ Len(appts') >= Len(appts)
    /\ \A i \in DOMAIN appts :
          appts'[i].appointment_date # appts[i].appointment_date
              => /\ Len(appts') = Len(appts)
                 /\ appts'[i].status = "pending"

C36_ConfirmedAtFollowsStatus ==
    \A i \in DOMAIN appts :
        /\ appts[i].status = "pending" => appts[i].confirmed_at = NULL
        /\ appts[i].status \in {"confirmed", "completed", "no_show"}
              => appts[i].confirmed_at # NULL

\* a moved appointment loses its confirmation, and only a confirmed
\* appointment becomes completed or no_show
C36_ConfirmAgain ==
    \A i \in DOMAIN appts :
        /\ appts'[i].appointment_date # appts[i].appointment_date
              => appts'[i].status = "pending" /\ appts'[i].confirmed_at = NULL
        /\ ( /\ appts'[i].status \in {"completed", "no_show"}
             /\ appts'[i].status # appts[i].status )
              => appts[i].status = "confirmed" /\ appts[i].confirmed_at # NULL
        /\ ( appts[i].status = "pending" /\ appts'[i].status # "pending" )
              => appts'[i].status \in {"confirmed", "cancelled"}

C37_SlotCountIsEmitted ==
    \A d \in BreakDates :
        LET day_schedule == get_weekly_schedule(BreakDoctor)[weekday(d) + 1]
        IN  \A k \in DOMAIN day_schedule.slots :
                day_schedule.slots[k].slot_count = Len(EmittedFor(d, k))

\* the answers get_computed_availability may give for each range of dates, one
\* for each order in which the exceptions of a date may be returned
DayOutputs ==
    [range \in DayDates \X DayDates |->
        {get_computed_availability(DayDoctor, range[1], range[2], by_date) :
            by_date \in ExceptionsByDate(DayDoctor, range[1], range[2])}]

\* the step stores an absence with a start_time / end_time window
AddsPartialDayAbsence ==
    /\ Len(absences') = Len(absences) + 1
    /\ ~is_full_day(absences'[Len(absences')])

\* the step stores an exception with a window, or one with is_available = true
AddsPartialOrAvailableException ==
    /\ Len(exceptions') = Len(exceptions) + 1
    /\ \/ ~exception_is_full_day(exceptions'[Len(exceptions')])
       \/ exceptions'[Len(exceptions')].is_available

\* C38 (as claimed): partial-day absences, partial-day exceptions and
\* exceptions with is_available = true never change the output of
\* get_computed_availability: storing one leaves every day as blocked or
\* unblocked as before, with the same sub-slots and the same is_available
\* values.
C38_PartialDayRowsAreIgnored ==
    [][(AddsPartialDayAbsence \/ AddsPartialOrAvailableException)
          => DayOutputs' = DayOutputs]_vars

====
